---- MODULE Spec2Model ----
(***************************************************************************)
(* Dispute-case lifecycle and Merkle commitment of the rental agent.       *)
(*                                                                         *)
(*   Spec        the off-chain DisputeService (agent/src/services/         *)
(*               disputeService.js): its in-memory Map of dispute          *)
(*               packages, the wall clock it reads, and the outcome of the *)
(*               last call.                                                *)
(*   SpecMerkle  the two Merkle builders as pure functions: the off-chain  *)
(*               generateMerkleRoot and the on-chain createDisputePackage  *)
(*               leaf loop + _generateMerkleRoot (DisputeResolution.sol).  *)
(*   SpecProof   verifyMerkleProof applied to the proofs of the trees      *)
(*               generateMerkleRoot builds, and to altered proofs.         *)
(*   SpecEvidence  the service's buildDisputePackage, with an Arweave      *)
(*               store that can fail, and verifyEvidenceInDispute.         *)
(*   SpecChain   the DisputeResolution contract's dispute registry.        *)
(*   SpecLedger  the contract's evidence records: addEvidence and          *)
(*               verifyEvidence.                                           *)
(*   SpecCase    createDisputePackage over the evidence added to a lease.  *)
(*   SpecLease   leases signed off-chain (LeaseService) and on-chain       *)
(*               (RentalContract, USDAAdapter.sol).                        *)
(*   SpecScheduler  the two SchedulerService classes firing jobs under     *)
(*               executeWithRetry.                                         *)
(*   SpecSweep   cleanupExpiredDisputes when the update of a case throws.  *)
(*   SpecExpiry  disputes created on the contract while the owner changes  *)
(*               the expiry period (updateDisputeExpiryDays).              *)
(*   SpecLimits  disputes created on the contract while the owner changes  *)
(*               the evidence limits (updateEvidenceLimits).               *)
(*   SpecConfig  the service started under every setting of the            *)
(*               environment variable DISPUTE_EXPIRY_DAYS.                 *)
(*   SpecRepeats cases built and created from evidence lists that name an  *)
(*               identifier twice.                                         *)
(*                                                                         *)
(* Time is counted in days: the service adds DISPUTE_EXPIRY_DAYS * 24 * 60 *)
(* * 60 * 1000 ms to Date.now(), and every comparison is between such      *)
(* sums, so the factor is a change of unit.                                *)
(***************************************************************************)
EXTENDS Integers, Sequences, FiniteSets, TLC

VARIABLES
    db,             \* DisputeService.db: disputeId -> dispute package
    now,            \* the wall clock (new Date() / Date.now()), in days
    ret,            \* outcome of the last service call
    txIds,          \* SpecMerkle: the identifier list handed to the builders
    offRoot,        \* SpecMerkle: generateMerkleRoot's result for that list
    chainRoot,      \* SpecMerkle: the contract's root for that list
    offFirst,       \* SpecMerkle: the first off-chain root built for these identifiers
    chainFirst,     \* SpecMerkle: the first on-chain root built for these identifiers
    leaf,           \* SpecProof: the evidence id handed to verifyMerkleProof
    proof,          \* SpecProof: the proof handed to verifyMerkleProof
    proofState,     \* SpecProof: how leaf and proof came about
    verdict,        \* SpecProof: what verifyMerkleProof returned for them
    disputePackages,    \* SpecChain: mapping(string => DisputePackage)
    leaseDisputes,      \* SpecChain: mapping(string => string[])
    userDisputes,       \* SpecChain: mapping(address => string[])
    disputeExpiryDays,  \* SpecChain: the contract's expiry period
    minEvidenceCount,   \* SpecChain: the contract's lower evidence limit
    maxEvidenceCount,   \* SpecChain: the contract's upper evidence limit
    blockTimestamp,     \* SpecChain: block.timestamp, in days
    txRet,              \* SpecChain: outcome of the last transaction
    leaseEvidence,      \* SpecLedger: mapping(string => Evidence[])
    leaseDb,            \* SpecLease: the Map of the off-chain LeaseService
    leases,             \* SpecLease: mapping(string => Lease) of RentalContract
    run,                \* SpecScheduler: the job firing that executeWithRetry is running
    processEnv          \* SpecConfig: process.env.DISPUTE_EXPIRY_DAYS, as its characters

serviceVars == <<db, now, ret>>
merkleVars == <<txIds, offRoot, chainRoot, offFirst, chainFirst>>
proofVars == <<leaf, proof, proofState, verdict>>
chainVars ==
    <<disputePackages, leaseDisputes, userDisputes, disputeExpiryDays,
      minEvidenceCount, maxEvidenceCount, blockTimestamp, txRet>>

ledgerVars == <<leaseEvidence>>

leaseVars == <<leaseDb, leases>>

schedVars == <<run>>

configVars == <<processEnv>>

vars == <<serviceVars, merkleVars, proofVars, chainVars, ledgerVars, leaseVars, schedVars, configVars>>

----------------------------------------------------------------------------
(* Bounds *)

MaxTime == 32
MaxLen == 4
MaxBlock == 1
MaxEvidence == 2

----------------------------------------------------------------------------
(* Configuration *)

\* The number that is not one: what parseInt returns for a text without
\* leading digits, and what arithmetic on undefined gives.
NaN == -2

DigitChars == {"0", "1", "2", "3", "4", "5", "6", "7", "8", "9"}

DigitValue(c) ==
    CASE c = "0" -> 0 [] c = "1" -> 1 [] c = "2" -> 2 [] c = "3" -> 3 [] c = "4" -> 4
      [] c = "5" -> 5 [] c = "6" -> 6 [] c = "7" -> 7 [] c = "8" -> 8 [] c = "9" -> 9

RECURSIVE ParseDigits(_, _)
ParseDigits(chars, acc) ==
    IF chars = <<>> \/ Head(chars) \notin DigitChars THEN acc
    ELSE ParseDigits(Tail(chars), acc * 10 + DigitValue(Head(chars)))

\* parseInt on a text without sign or leading blanks: the number its leading
\* digits spell, NaN when it has none (an unset variable included).
parseInt(chars) ==
    IF chars = <<>> \/ Head(chars) \notin DigitChars THEN NaN ELSE ParseDigits(chars, 0)

\* a || b on numbers: b when a is NaN or 0.
JsOr(a, b) == IF a = NaN \/ a = 0 THEN b ELSE a

\* config.DISPUTE_EXPIRY_DAYS: parseInt(process.env.DISPUTE_EXPIRY_DAYS) || 30
DISPUTE_EXPIRY_DAYS == JsOr(parseInt(processEnv), 30)

\* A value the config object does not define reads as undefined.
Undefined == -1

\* config.MIN_EVIDENCE_COUNT and config.MAX_EVIDENCE_COUNT
MIN_EVIDENCE_COUNT == 3
MAX_EVIDENCE_COUNT == 100

\* config.DISPUTE_MAX_EVIDENCE_COUNT: the config object defines
\* MAX_EVIDENCE_COUNT and MIN_EVIDENCE_COUNT, and no DISPUTE_MAX_EVIDENCE_COUNT.
DISPUTE_MAX_EVIDENCE_COUNT == Undefined

\* JavaScript's a > b on numbers: false when b is undefined (NaN).
JsGreater(a, b) == IF b = Undefined THEN FALSE ELSE a > b

----------------------------------------------------------------------------
(* Identifiers and the hash *)

\* The evidence identifiers, in the order Array.prototype.sort() gives them
\* (code-unit order of the strings).
EvidencePool == <<"lease-tx", "msg-tx", "receipt-tx">>

EvidenceIds == {EvidencePool[i] : i \in DOMAIN EvidencePool}

Rank(id) == CHOOSE i \in DOMAIN EvidencePool : EvidencePool[i] = id

\* a < b as sort()'s default comparison decides it.
LexLess(a, b) == Rank(a) < Rank(b)

\* A faulty variant of Hash: every input has the same digest.
CollidingHash(s) == "h()"

\* The digest: one abstract collision-free function for sha256 and keccak256.
Hash(s) == "h(" \o s \o ")"

----------------------------------------------------------------------------
(* The off-chain builder: DisputeService.generateMerkleRoot *)

RECURSIVE Insert(_, _)
\* x put into the sorted list after every element that is not greater.
Insert(sorted, x) ==
    IF sorted = <<>> THEN <<x>>
    ELSE IF LexLess(x, Head(sorted)) THEN <<x>> \o sorted
    ELSE <<Head(sorted)>> \o Insert(Tail(sorted), x)

RECURSIVE SortedIds(_)
\* A faulty variant of SortedIds: the list is left in the order submitted.
SubmittedOrder(ids) == ids

\* [...evidenceTxIds].sort()
SortedIds(ids) ==
    IF ids = <<>> THEN <<>>
    ELSE Insert(SortedIds(SubSeq(ids, 1, Len(ids) - 1)), ids[Len(ids)])

\* A faulty variant of Leaves: the identifiers are not hashed.
RawLeaves(ids) == ids

\* sortedIds.map(txId => sha256(txId))
Leaves(ids) == [i \in 1..Len(ids) |-> Hash(ids[i])]

\* One pass of the for loop: parent = sha256(left + right), where right is
\* left again when the level has no node after it.
NextLevel(currentLevel) ==
    [k \in 1..((Len(currentLevel) + 1) \div 2) |->
        LET left == currentLevel[2 * k - 1]
            right == IF 2 * k <= Len(currentLevel) THEN currentLevel[2 * k] ELSE left
        IN  Hash(left \o right)]

RECURSIVE BuildUp(_)
\* while (currentLevel.length > 1) currentLevel = nextLevel
BuildUp(currentLevel) ==
    IF Len(currentLevel) > 1 THEN BuildUp(NextLevel(currentLevel)) ELSE currentLevel

\* currentLevel[0] of the last level; undefined when the list was empty.
generateMerkleRoot(ids) ==
    LET top == BuildUp(Leaves(SortedIds(ids)))
    IN  IF Len(top) = 0 THEN "undefined" ELSE top[1]

----------------------------------------------------------------------------
(* The on-chain builder: createDisputePackage's leaf loop and              *)
(* _generateMerkleRoot of DisputeResolution.sol                            *)

\* leaves[i] = keccak256(abi.encodePacked(evidenceTxIds[i])), in the order given
ChainLeaves(ids) == [i \in 1..Len(ids) |-> Hash(ids[i])]

\* One pass of the for loop: a pair is hashed, a last node without a pair is
\* copied up as it is.
ChainNextLevel(currentLevel) ==
    [k \in 1..((Len(currentLevel) + 1) \div 2) |->
        IF 2 * k <= Len(currentLevel)
        THEN Hash(currentLevel[2 * k - 1] \o currentLevel[2 * k])
        ELSE currentLevel[2 * k - 1]]

RECURSIVE ChainBuildUp(_)
ChainBuildUp(currentLevel) ==
    IF Len(currentLevel) > 1 THEN ChainBuildUp(ChainNextLevel(currentLevel))
    ELSE currentLevel

\* bytes32(0) for no leaves, the leaf itself for one
_generateMerkleRoot(leaves) ==
    IF Len(leaves) = 0 THEN "0x0"
    ELSE IF Len(leaves) = 1 THEN leaves[1]
    ELSE ChainBuildUp(leaves)[1]

\* The root createDisputePackage stores for the list it is given.
ChainMerkleRoot(ids) == _generateMerkleRoot(ChainLeaves(ids))

----------------------------------------------------------------------------
(* The off-chain service: inputs *)

\* The identifiers uuidv4() can return.
DisputeIds == {"uuid-1", "uuid-2"}

\* The clock readings: the first two days, and the days from the length of
\* the expiry period on.
Instants == {t \in 0..MaxTime : t <= 1 \/ t >= DISPUTE_EXPIRY_DAYS}

LeaseInputs == {"", "lease-1"}

Wallets == {"landlord", "tenant"}

EvidenceInputs ==
    { <<>>,
      <<"receipt-tx", "lease-tx">>,
      <<"lease-tx", "receipt-tx", "msg-tx">> }

StatusInputs == {"pending", "resolved", "archived"}

\* What a call left behind: the method, the error it threw ("" when it
\* returned) and the count it returned (cleanupExpiredDisputes).
Outcome(op, err, count) == [op |-> op, err |-> err, count |-> count]

----------------------------------------------------------------------------
(* DisputeService.buildDisputePackage *)

\* uuidv4(): an identifier no stored package has. The identifiers are
\* interchangeable, so one unused identifier stands for all of them.
FreshIds == {id \in DisputeIds : id \notin DOMAIN db}

NewDisputeId == CHOOSE id \in FreshIds : TRUE

\* The validation at the head of buildDisputePackage: the error it throws, ""
\* when it lets the request through.
BuildValidation(leaseId, ids) ==
    IF leaseId = "" THEN "ValidationError"
    ELSE IF Len(ids) = 0 THEN "ValidationError"
    ELSE IF JsGreater(Len(ids), DISPUTE_MAX_EVIDENCE_COUNT) THEN "ValidationError"
    ELSE ""

\* A faulty variant of DisputePackage: the root is built before the first
\* identifier of the list is taken in.
DisputePackageStaleRoot(leaseId, ids, walletAddress, t) ==
    [ leaseId |-> leaseId,
      evidenceTxIds |-> ids,
      merkleRoot |-> generateMerkleRoot(Tail(ids)),
      createdBy |-> walletAddress,
      createdAt |-> t,
      status |-> "pending",
      expiresAt |-> t + DISPUTE_EXPIRY_DAYS,
      arweaveTxId |-> "mock_arweave_tx",
      updatedAt |-> Undefined,
      updatedBy |-> "" ]

\* A faulty variant of DisputePackage: the expiry period is not added.
DisputePackageNoTtl(leaseId, ids, walletAddress, t) ==
    [ leaseId |-> leaseId,
      evidenceTxIds |-> ids,
      merkleRoot |-> generateMerkleRoot(ids),
      createdBy |-> walletAddress,
      createdAt |-> t,
      status |-> "pending",
      expiresAt |-> t,
      arweaveTxId |-> "mock_arweave_tx",
      updatedAt |-> Undefined,
      updatedBy |-> "" ]

\* The disputePackage object as it is stored once the Arweave id is set.
\* createdAt and expiresAt are read from the clock in the same turn.
\* storeDisputePackageOnArweave is the mock of the source: it returns an id.
\* The call in which it throws is BuildDisputePackageArweaveFails.
DisputePackage(leaseId, ids, walletAddress, t) ==
    [ leaseId |-> leaseId,
      evidenceTxIds |-> ids,
      merkleRoot |-> generateMerkleRoot(ids),
      createdBy |-> walletAddress,
      createdAt |-> t,
      status |-> "pending",
      expiresAt |-> t + DISPUTE_EXPIRY_DAYS,
      arweaveTxId |-> "mock_arweave_tx",
      updatedAt |-> Undefined,
      updatedBy |-> "" ]

\* The Map holds the one object before and after the await, so the package
\* is stored in one step. A valid request needs an identifier that is still
\* unused.
BuildDisputePackage(leaseId, ids, walletAddress) ==
    /\ IF BuildValidation(leaseId, ids) # ""
       THEN /\ ret' = Outcome("buildDisputePackage", BuildValidation(leaseId, ids), 0)
            /\ db' = db
       ELSE /\ FreshIds # {}
            /\ db' = (NewDisputeId :> DisputePackage(leaseId, ids, walletAddress, now)) @@ db
            /\ ret' = Outcome("buildDisputePackage", "", 0)
    /\ UNCHANGED <<now, merkleVars, proofVars, chainVars, ledgerVars, leaseVars, schedVars, configVars>>

----------------------------------------------------------------------------
(* DisputeService.updateDisputeStatus *)

\* A faulty variant of WithStatus: the Arweave id is dropped with the update.
WithStatusDropsAnchor(dispute, status, walletAddress, t) ==
    [dispute EXCEPT !.status = status, !.updatedAt = t, !.updatedBy = walletAddress,
                    !.arweaveTxId = "undefined"]

\* dispute.status = status; dispute.updatedAt = new Date();
\* dispute.updatedBy = walletAddress
WithStatus(dispute, status, walletAddress, t) ==
    [dispute EXCEPT !.status = status, !.updatedAt = t, !.updatedBy = walletAddress]

\* The function has no await and no test of the current status.
UpdateDisputeStatus(disputeId, status, walletAddress) ==
    /\ IF disputeId \notin DOMAIN db
       THEN /\ ret' = Outcome("updateDisputeStatus", "NotFoundError", 0)
            /\ db' = db
       ELSE /\ db' = [db EXCEPT ![disputeId] = WithStatus(@, status, walletAddress, now)]
            /\ ret' = Outcome("updateDisputeStatus", "", 0)
    /\ UNCHANGED <<now, merkleVars, proofVars, chainVars, ledgerVars, leaseVars, schedVars, configVars>>

----------------------------------------------------------------------------
(* DisputeService.cleanupExpiredDisputes *)

\* A faulty variant of IsExpiredPending: the status is not looked at.
IsExpiredAnyStatus(dispute, t) == dispute.expiresAt < t

\* dispute.expiresAt < now && dispute.status === 'pending'
IsExpiredPending(dispute, t) == dispute.expiresAt < t /\ dispute.status = "pending"

\* A faulty variant of Expire: the status is not written.
ExpireKeepsStatus(dispute, t) == [dispute EXCEPT !.updatedAt = t]

\* dispute.status = 'expired'; dispute.updatedAt = now
Expire(dispute, t) == [dispute EXCEPT !.status = "expired", !.updatedAt = t]

\* A faulty variant of ExpiredDisputes: every package whose expiry has passed
\* is collected, whatever its status.
ExpiredDisputesAnyStatus(d, t) == {id \in DOMAIN d : d[id].expiresAt < t}

\* The ids the first loop collects.
ExpiredDisputes(d, t) == {id \in DOMAIN d : IsExpiredPending(d[id], t)}

\* The Map after the second loop.
Cleaned(d, t) ==
    [id \in DOMAIN d |-> IF id \in ExpiredDisputes(d, t) THEN Expire(d[id], t) ELSE d[id]]

\* The function has no await: both loops run in one turn of the event loop.
CleanupExpiredDisputes ==
    /\ db' = Cleaned(db, now)
    /\ ret' = Outcome("cleanupExpiredDisputes", "", Cardinality(ExpiredDisputes(db, now)))
    /\ UNCHANGED <<now, merkleVars, proofVars, chainVars, ledgerVars, leaseVars, schedVars, configVars>>

----------------------------------------------------------------------------
(* The clock *)

\* The clock moves on to a later reading; ret is the outcome of a call made
\* at the current reading and is cleared with it.
Tick ==
    /\ \E t \in Instants : t > now /\ now' = t
    /\ ret' = Outcome("", "", 0)
    /\ UNCHANGED <<db, merkleVars, proofVars, chainVars, ledgerVars, leaseVars, schedVars, configVars>>

----------------------------------------------------------------------------
(* Spec: the off-chain service *)

NotComputed == ""

\* verifyMerkleProof has not been called.
NoVerdict == [done |-> FALSE, value |-> FALSE]

ProofUnused ==
    /\ leaf = ""
    /\ proof = <<>>
    /\ proofState = "none"
    /\ verdict = NoVerdict

\* The accounts that send transactions; the first deployed the contract and
\* is its owner (constructor(address initialOwner) Ownable(initialOwner)).
Accounts == {1, 2}

\* The lease ids the contract is called with; "" is the empty string.
ChainLeases == {"", "lease-1"}

\* The result of a transaction: the function, and the revert reason ("" when
\* it went through).
TxOutcome(fn, revert) == [fn |-> fn, revert |-> revert]

\* The contract after its constructor: empty mappings and the initial values
\* of the three settings.
ChainDeployed ==
    /\ disputePackages = <<>>
    /\ leaseDisputes = [l \in ChainLeases |-> <<>>]
    /\ userDisputes = [a \in Accounts |-> <<>>]
    /\ disputeExpiryDays = 30
    /\ minEvidenceCount = 3
    /\ maxEvidenceCount = 100
    /\ blockTimestamp = 0
    /\ txRet = TxOutcome("", "")

\* A firing of a job under executeWithRetry: the scheduler class and the job,
\* where the call stands, the attempts made, the invocations of the task, the
\* delays slept so far and the error the call ended with.
Firing(impl, job, pc, attempts, invoked, waits, err) ==
    [impl |-> impl, job |-> job, pc |-> pc, attempts |-> attempts,
     invoked |-> invoked, waits |-> waits, err |-> err]

\* No job has fired.
SchedulerIdle == run = Firing("", "", "idle", 0, 0, <<>>, "")

\* The process was started without DISPUTE_EXPIRY_DAYS in its environment.
EnvUnset == processEnv = <<>>

\* No lease has been created, off-chain or on-chain.
LeasesEmpty == leaseDb = <<>> /\ leases = <<>>

\* No evidence has been added to any lease.
LedgerDeployed == leaseEvidence = [l \in ChainLeases |-> <<>>]

Init ==
    /\ db = <<>>
    /\ now = 0
    /\ ret = Outcome("", "", 0)
    /\ txIds = <<>>
    /\ offRoot = NotComputed
    /\ chainRoot = NotComputed
    /\ offFirst = NotComputed
    /\ chainFirst = NotComputed
    /\ ProofUnused
    /\ ChainDeployed
    /\ EnvUnset
    /\ SchedulerIdle
    /\ LeasesEmpty
    /\ LedgerDeployed

Build ==
    \E leaseId \in LeaseInputs, ids \in EvidenceInputs, walletAddress \in Wallets :
        BuildDisputePackage(leaseId, ids, walletAddress)

Update ==
    \E disputeId \in DisputeIds, status \in StatusInputs, walletAddress \in Wallets :
        UpdateDisputeStatus(disputeId, status, walletAddress)

Next ==
    \/ Build
    \/ Update
    \/ CleanupExpiredDisputes
    \/ Tick

Spec == Init /\ [][Next]_vars

----------------------------------------------------------------------------
(* SpecMerkle: the two builders applied to every ordering of a list *)

IdLists == UNION {[1..n -> EvidenceIds] : n \in 0..MaxLen}

\* The list with the elements at i and i + 1 exchanged.
Swapped(ids, i) ==
    [k \in 1..Len(ids) |-> IF k = i THEN ids[i + 1] ELSE IF k = i + 1 THEN ids[i] ELSE ids[k]]

MerkleInit ==
    /\ db = <<>>
    /\ now = 0
    /\ ret = Outcome("", "", 0)
    /\ txIds \in IdLists
    /\ offRoot = NotComputed
    /\ chainRoot = NotComputed
    /\ offFirst = NotComputed
    /\ chainFirst = NotComputed
    /\ ProofUnused
    /\ ChainDeployed
    /\ EnvUnset
    /\ SchedulerIdle
    /\ LeasesEmpty
    /\ LedgerDeployed

\* The same identifiers submitted in another order.
Reorder ==
    /\ \E i \in 1..(Len(txIds) - 1) :
           /\ Swapped(txIds, i) # txIds
           /\ txIds' = Swapped(txIds, i)
    /\ offRoot' = NotComputed
    /\ chainRoot' = NotComputed
    /\ UNCHANGED <<offFirst, chainFirst, serviceVars, proofVars, chainVars, ledgerVars, leaseVars, schedVars, configVars>>

GenerateOffChain ==
    /\ offRoot' = generateMerkleRoot(txIds)
    /\ offFirst' = IF offFirst = NotComputed THEN generateMerkleRoot(txIds) ELSE offFirst
    /\ UNCHANGED <<txIds, chainRoot, chainFirst, serviceVars, proofVars, chainVars, ledgerVars, leaseVars, schedVars, configVars>>

GenerateOnChain ==
    /\ chainRoot' = ChainMerkleRoot(txIds)
    /\ chainFirst' = IF chainFirst = NotComputed THEN ChainMerkleRoot(txIds) ELSE chainFirst
    /\ UNCHANGED <<txIds, offRoot, offFirst, serviceVars, proofVars, chainVars, ledgerVars, leaseVars, schedVars, configVars>>

MerkleNext ==
    \/ Reorder
    \/ GenerateOffChain
    \/ GenerateOnChain

SpecMerkle == MerkleInit /\ [][MerkleNext]_vars

----------------------------------------------------------------------------
(* DisputeService.verifyMerkleProof *)

\* A faulty variant of ProofStep: the position of the sibling is not looked at.
ProofStepRightOnly(currentHash, p) == Hash(currentHash \o p.hash)

\* One pass of the for loop: the sibling goes in front when its position is
\* 'left', behind for every other position.
ProofStep(currentHash, p) ==
    IF p.position = "left" THEN Hash(p.hash \o currentHash)
    ELSE Hash(currentHash \o p.hash)

RECURSIVE FoldProof(_, _)
\* for (const proof of merkleProof) currentHash = ...
FoldProof(currentHash, merkleProof) ==
    IF merkleProof = <<>> THEN currentHash
    ELSE FoldProof(ProofStep(currentHash, Head(merkleProof)), Tail(merkleProof))

\* currentHash starts as sha256(evidenceTxId); the result is
\* currentHash === merkleRoot.
verifyMerkleProof(evidenceTxId, merkleProof, merkleRoot) ==
    FoldProof(Hash(evidenceTxId), merkleProof) = merkleRoot

----------------------------------------------------------------------------
(* SpecProof: verifyMerkleProof applied to the trees of generateMerkleRoot *)

RECURSIVE ProofPath(_, _)
\* The proof of the node at position i of a level, read off the tree
\* generateMerkleRoot builds over that level: at each level the digest of the
\* node it is hashed with and the side that digest is on. A last node
\* without a pair is hashed with itself.
ProofPath(level, i) ==
    IF Len(level) <= 1 THEN <<>>
    ELSE LET sibling ==
                 IF i % 2 = 0 THEN level[i - 1]
                 ELSE IF i + 1 <= Len(level) THEN level[i + 1]
                 ELSE level[i]
             position == IF i % 2 = 0 THEN "left" ELSE "right"
         IN  <<[hash |-> sibling, position |-> position]>>
                 \o ProofPath(NextLevel(level), (i + 1) \div 2)

RECURSIVE TreeNodes(_)
\* The digests of all nodes of the tree built over a level.
TreeNodes(level) ==
    {level[k] : k \in 1..Len(level)} \cup
        (IF Len(level) > 1 THEN TreeNodes(NextLevel(level)) ELSE {})

\* An identifier that is no evidence of any list.
ForgedId == "forged-tx"

\* The digests a sibling can be replaced by: the nodes of the tree, the
\* digests of all identifiers and of a pair of them.
ForgedDigests(ids) ==
    TreeNodes(Leaves(SortedIds(ids)))
        \cup {Hash(id) : id \in EvidenceIds \cup {ForgedId}}
        \cup {Hash(Hash(ForgedId) \o Hash(ForgedId))}

ProofInit ==
    /\ db = <<>>
    /\ now = 0
    /\ ret = Outcome("", "", 0)
    /\ txIds \in IdLists
    /\ offRoot = NotComputed
    /\ chainRoot = NotComputed
    /\ offFirst = NotComputed
    /\ chainFirst = NotComputed
    /\ ProofUnused
    /\ ChainDeployed
    /\ EnvUnset
    /\ SchedulerIdle
    /\ LeasesEmpty
    /\ LedgerDeployed

\* The proof of one leaf is read off the tree.
ReadProof ==
    /\ offRoot # NotComputed
    /\ \E i \in 1..Len(txIds) :
           /\ leaf' = SortedIds(txIds)[i]
           /\ proof' = ProofPath(Leaves(SortedIds(txIds)), i)
    /\ proofState' = "read"
    /\ verdict' = NoVerdict
    /\ UNCHANGED <<serviceVars, merkleVars, chainVars, ledgerVars, leaseVars, schedVars, configVars>>

\* The leaf of a proof read off the tree is replaced by another identifier.
ReplaceLeaf ==
    /\ proofState = "read"
    /\ \E id \in (EvidenceIds \cup {ForgedId}) \ {leaf} : leaf' = id
    /\ proofState' = "leafReplaced"
    /\ verdict' = NoVerdict
    /\ UNCHANGED <<proof, serviceVars, merkleVars, chainVars, ledgerVars, leaseVars, schedVars, configVars>>

\* One sibling digest of a proof read off the tree is replaced by another
\* digest.
ReplaceSibling ==
    /\ proofState = "read"
    /\ \E k \in DOMAIN proof :
           \E d \in ForgedDigests(txIds) \ {proof[k].hash} :
               proof' = [proof EXCEPT ![k].hash = d]
    /\ proofState' = "siblingReplaced"
    /\ verdict' = NoVerdict
    /\ UNCHANGED <<leaf, serviceVars, merkleVars, chainVars, ledgerVars, leaseVars, schedVars, configVars>>

VerifyMerkleProof ==
    /\ proofState # "none"
    /\ verdict' = [done |-> TRUE, value |-> verifyMerkleProof(leaf, proof, offRoot)]
    /\ UNCHANGED <<leaf, proof, proofState, serviceVars, merkleVars, chainVars, ledgerVars, leaseVars, schedVars, configVars>>

\* GenerateOffChain builds the root of the list.
ProofNext ==
    \/ GenerateOffChain
    \/ ReadProof
    \/ ReplaceLeaf
    \/ ReplaceSibling
    \/ VerifyMerkleProof

SpecProof == ProofInit /\ [][ProofNext]_vars

----------------------------------------------------------------------------
(* DisputeService.buildDisputePackage when the Arweave store fails *)

\* The arweaveTxId of a package the assignment of line 81 never reached.
NoArweaveTx == "undefined"

\* The disputePackage object as line 69 stored it.
UnanchoredPackage(leaseId, ids, walletAddress, t) ==
    [DisputePackage(leaseId, ids, walletAddress, t) EXCEPT !.arweaveTxId = NoArweaveTx]

\* A faulty variant of StoredBeforeAnchor: the package is taken out again.
RolledBack(d, id, package) == d

\* this.db.set(disputeId, disputePackage) of line 69, which no later line
\* of the function undoes.
StoredBeforeAnchor(d, id, package) == (id :> package) @@ d

\* The call in which storeDisputePackageOnArweave throws: its catch turns the
\* error into an ArweaveError, the await of line 78 rethrows it, lines 81-98
\* are skipped and the catch of buildDisputePackage throws it on to the
\* caller. The package was stored at line 69.
BuildDisputePackageArweaveFails(leaseId, ids, walletAddress) ==
    /\ BuildValidation(leaseId, ids) = ""
    /\ FreshIds # {}
    /\ db' = StoredBeforeAnchor(db, NewDisputeId,
                                UnanchoredPackage(leaseId, ids, walletAddress, now))
    /\ ret' = Outcome("buildDisputePackage", "ArweaveError", 0)
    /\ UNCHANGED <<now, merkleVars, proofVars, chainVars, ledgerVars, leaseVars, schedVars, configVars>>

----------------------------------------------------------------------------
(* DisputeService.verifyEvidenceInDispute *)

\* evidenceTxIds.includes(evidenceTxId)
Includes(ids, evidenceTxId) == \E i \in 1..Len(ids) : ids[i] = evidenceTxId

\* The error verifyEvidenceInDispute throws, "" when it returns true: the
\* three throw statements in the order of the source.
VerifyEvidenceError(d, disputeId, evidenceTxId, merkleProof) ==
    IF disputeId \notin DOMAIN d THEN "NotFoundError"
    ELSE IF ~Includes(d[disputeId].evidenceTxIds, evidenceTxId) THEN "ValidationError"
    ELSE IF ~verifyMerkleProof(evidenceTxId, merkleProof, d[disputeId].merkleRoot)
         THEN "ValidationError"
    ELSE ""

\* The function has no await and writes nothing.
VerifyEvidenceInDispute(disputeId, evidenceTxId, merkleProof) ==
    /\ ret' = Outcome("verifyEvidenceInDispute",
                      VerifyEvidenceError(db, disputeId, evidenceTxId, merkleProof), 0)
    /\ UNCHANGED <<db, now, merkleVars, proofVars, chainVars, ledgerVars, leaseVars, schedVars, configVars>>

----------------------------------------------------------------------------
(* DisputeService.getDisputePackage, getLeaseDisputes, getUserDisputes, close *)

\* this.db.get(disputeId); NotFoundError when the Map has no such key.
getDisputePackage(d, disputeId) ==
    IF disputeId \notin DOMAIN d
    THEN [err |-> "NotFoundError", dispute |-> <<>>]
    ELSE [err |-> "", dispute |-> <<d[disputeId]>>]

\* The packages of this.db.values() with dispute.leaseId === leaseId, by key.
\* The array is returned sorted by createdAt, newest first; the listing is
\* kept here as the set of its members.
getLeaseDisputes(d, leaseId) == {id \in DOMAIN d : d[id].leaseId = leaseId}

\* The packages with dispute.createdBy === walletAddress, by key.
getUserDisputes(d, walletAddress) == {id \in DOMAIN d : d[id].createdBy = walletAddress}

\* this.db.clear()
Cleared(d) == <<>>

\* close(): called on graceful shutdown; any error is logged and swallowed.
Close ==
    /\ db' = Cleared(db)
    /\ ret' = Outcome("close", "", 0)
    /\ UNCHANGED <<now, merkleVars, proofVars, chainVars, ledgerVars, leaseVars, schedVars, configVars>>

----------------------------------------------------------------------------
(* SpecEvidence: packages built with a store that can fail, verified, and *)
(* dropped by close() *)

\* The proofs handed in: the empty proof and the proof of every leaf of every
\* evidence list.
ProofInputs ==
    {<<>>} \cup
    UNION {{ProofPath(Leaves(SortedIds(ids)), i) : i \in 1..Len(ids)} : ids \in EvidenceInputs}

BuildArweaveFails ==
    \E leaseId \in LeaseInputs, ids \in EvidenceInputs, walletAddress \in Wallets :
        BuildDisputePackageArweaveFails(leaseId, ids, walletAddress)

VerifyInDispute ==
    \E disputeId \in DisputeIds, evidenceTxId \in EvidenceIds, merkleProof \in ProofInputs :
        VerifyEvidenceInDispute(disputeId, evidenceTxId, merkleProof)

EvidenceNext ==
    \/ Build
    \/ BuildArweaveFails
    \/ VerifyInDispute
    \/ Close

SpecEvidence == Init /\ [][EvidenceNext]_vars

----------------------------------------------------------------------------
(* The DisputeResolution contract: createDisputePackage, resolveDispute *)

\* The owner set by the constructor (Ownable(initialOwner)).
Owner == 1

\* _uint2str: the decimal digits of the number.
_uint2str(i) == ToString(i)

\* leaseId, "-", block.timestamp, "-", msg.sender, packed into one string.
_generateDisputeId(leaseId, timestamp, sender) ==
    leaseId \o "-" \o _uint2str(timestamp) \o "-" \o _uint2str(sender)

\* _bytes32ToString: the 32 bytes of the root copied into a string of 32
\* bytes; the digest's text stands for its bytes.
_bytes32ToString(root) == root

\* The first require of createDisputePackage that fails, "" when none does.
CreateRevert(sender, leaseId, ids) ==
    IF leaseId = "" THEN "Lease ID cannot be empty"
    ELSE IF Len(ids) < minEvidenceCount THEN "Insufficient evidence"
    ELSE IF Len(ids) > maxEvidenceCount THEN "Too much evidence"
    ELSE IF _generateDisputeId(leaseId, blockTimestamp, sender) \in DOMAIN disputePackages
         THEN "Dispute already exists"
    ELSE ""

\* A faulty variant of NewChainDispute: the expiry period the contract was
\* deployed with is added, not the current one.
NewChainDisputeInitialExpiry(leaseId, ids) ==
    [ leaseId |-> leaseId,
      merkleRoot |-> _bytes32ToString(ChainMerkleRoot(ids)),
      evidenceTxIds |-> ids,
      createdAt |-> blockTimestamp,
      expiresAt |-> blockTimestamp + 30,
      resolved |-> FALSE,
      resolution |-> "",
      resolver |-> 0,
      resolutionTimestamp |-> 0 ]

\* The struct createDisputePackage fills in; block.timestamp is counted in
\* days, so disputeExpiryDays * 1 days is disputeExpiryDays.
NewChainDispute(leaseId, ids) ==
    [ leaseId |-> leaseId,
      merkleRoot |-> _bytes32ToString(ChainMerkleRoot(ids)),
      evidenceTxIds |-> ids,
      createdAt |-> blockTimestamp,
      expiresAt |-> blockTimestamp + disputeExpiryDays,
      resolved |-> FALSE,
      resolution |-> "",
      resolver |-> 0,
      resolutionTimestamp |-> 0 ]

\* A faulty variant of createDisputePackage: the id is not pushed onto the
\* sender's list.
createDisputePackageNoUserIndex(sender, leaseId, ids) ==
    LET disputeId == _generateDisputeId(leaseId, blockTimestamp, sender)
        revert == CreateRevert(sender, leaseId, ids)
    IN  /\ txRet' = TxOutcome("createDisputePackage", revert)
        /\ IF revert # ""
           THEN UNCHANGED <<disputePackages, leaseDisputes, userDisputes>>
           ELSE /\ disputePackages' =
                       (disputeId :> NewChainDispute(leaseId, ids)) @@ disputePackages
                /\ leaseDisputes' = [leaseDisputes EXCEPT ![leaseId] = Append(@, disputeId)]
                /\ userDisputes' = userDisputes
        /\ UNCHANGED <<disputeExpiryDays, minEvidenceCount, maxEvidenceCount, blockTimestamp,
                       serviceVars, merkleVars, proofVars, ledgerVars, leaseVars, schedVars,
                       configVars>>

\* A transaction that reverts leaves the storage as it was.
createDisputePackage(sender, leaseId, ids) ==
    LET disputeId == _generateDisputeId(leaseId, blockTimestamp, sender)
        revert == CreateRevert(sender, leaseId, ids)
    IN  /\ txRet' = TxOutcome("createDisputePackage", revert)
        /\ IF revert # ""
           THEN UNCHANGED <<disputePackages, leaseDisputes, userDisputes>>
           ELSE /\ disputePackages' =
                       (disputeId :> NewChainDispute(leaseId, ids)) @@ disputePackages
                /\ leaseDisputes' = [leaseDisputes EXCEPT ![leaseId] = Append(@, disputeId)]
                /\ userDisputes' = [userDisputes EXCEPT ![sender] = Append(@, disputeId)]
        /\ UNCHANGED <<disputeExpiryDays, minEvidenceCount, maxEvidenceCount, blockTimestamp,
                       serviceVars, merkleVars, proofVars, ledgerVars, leaseVars, schedVars, configVars>>

\* The modifiers onlyOwner, disputeExists, disputeNotResolved in their order,
\* then the require of the body.
ResolveRevert(sender, disputeId, resolution) ==
    IF sender # Owner THEN "OwnableUnauthorizedAccount"
    ELSE IF disputeId \notin DOMAIN disputePackages THEN "Dispute does not exist"
    ELSE IF disputePackages[disputeId].resolved THEN "Dispute already resolved"
    ELSE IF resolution = "" THEN "Resolution cannot be empty"
    ELSE ""

resolveDispute(sender, disputeId, resolution) ==
    LET revert == ResolveRevert(sender, disputeId, resolution)
    IN  /\ txRet' = TxOutcome("resolveDispute", revert)
        /\ IF revert # ""
           THEN UNCHANGED disputePackages
           ELSE disputePackages' =
                    [disputePackages EXCEPT ![disputeId] =
                        [@ EXCEPT !.resolved = TRUE,
                                  !.resolution = resolution,
                                  !.resolver = sender,
                                  !.resolutionTimestamp = blockTimestamp]]
        /\ UNCHANGED <<leaseDisputes, userDisputes, disputeExpiryDays, minEvidenceCount,
                       maxEvidenceCount, blockTimestamp, serviceVars, merkleVars, proofVars, ledgerVars, leaseVars, schedVars, configVars>>

----------------------------------------------------------------------------
(* SpecChain: transactions sent to the contract *)

\* The block timestamps; the transactions of one block share one.
BlockTimes == 0..MaxBlock

\* The dispute ids a call can name: every id the contract can generate, and
\* one it cannot.
ChainDisputeIds ==
    {_generateDisputeId(l, t, a) : l \in ChainLeases \ {""}, t \in BlockTimes, a \in Accounts}
        \cup {"no-such-dispute"}

ResolutionInputs == {"", "refund"}

Create ==
    \E sender \in Accounts, leaseId \in ChainLeases, ids \in EvidenceInputs :
        createDisputePackage(sender, leaseId, ids)

Resolve ==
    \E sender \in Accounts, disputeId \in ChainDisputeIds, resolution \in ResolutionInputs :
        resolveDispute(sender, disputeId, resolution)

\* A later block; txRet is the outcome of a transaction of the current block
\* and is cleared with it.
Mine ==
    /\ \E t \in BlockTimes : t > blockTimestamp /\ blockTimestamp' = t
    /\ txRet' = TxOutcome("", "")
    /\ UNCHANGED <<disputePackages, leaseDisputes, userDisputes, disputeExpiryDays,
                   minEvidenceCount, maxEvidenceCount, serviceVars, merkleVars, proofVars, ledgerVars, leaseVars, schedVars, configVars>>

ChainNext ==
    \/ Create
    \/ Resolve
    \/ Mine

SpecChain == Init /\ [][ChainNext]_vars

----------------------------------------------------------------------------
(* The DisputeResolution contract: addEvidence, verifyEvidence *)

\* abi.encodePacked(leaseId, "-", evidenceType, "-", block.timestamp, "-",
\* msg.sender), the two numbers in decimal.
_generateEvidenceId(leaseId, evidenceType, timestamp, sender) ==
    leaseId \o "-" \o evidenceType \o "-" \o _uint2str(timestamp) \o "-" \o _uint2str(sender)

\* The require statements of addEvidence, in order.
AddEvidenceRevert(leaseId, evidenceType, arweaveTxId, contentHash) ==
    IF leaseId = "" THEN "Lease ID cannot be empty"
    ELSE IF evidenceType = "" THEN "Evidence type cannot be empty"
    ELSE IF arweaveTxId = "" THEN "Arweave TX ID cannot be empty"
    ELSE IF contentHash = "" THEN "Content hash cannot be empty"
    ELSE ""

\* The struct addEvidence pushes.
NewEvidence(sender, leaseId, evidenceType, arweaveTxId, contentHash) ==
    [ leaseId |-> leaseId,
      evidenceId |-> _generateEvidenceId(leaseId, evidenceType, blockTimestamp, sender),
      evidenceType |-> evidenceType,
      arweaveTxId |-> arweaveTxId,
      contentHash |-> contentHash,
      timestamp |-> blockTimestamp,
      submittedBy |-> sender,
      verified |-> FALSE ]

addEvidence(sender, leaseId, evidenceType, arweaveTxId, contentHash) ==
    LET revert == AddEvidenceRevert(leaseId, evidenceType, arweaveTxId, contentHash)
    IN  /\ txRet' = TxOutcome("addEvidence", revert)
        /\ IF revert # ""
           THEN UNCHANGED leaseEvidence
           ELSE leaseEvidence' =
                    [leaseEvidence EXCEPT ![leaseId] =
                        Append(@, NewEvidence(sender, leaseId, evidenceType,
                                              arweaveTxId, contentHash))]
        /\ UNCHANGED <<disputePackages, leaseDisputes, userDisputes, disputeExpiryDays,
                       minEvidenceCount, maxEvidenceCount, blockTimestamp,
                       serviceVars, merkleVars, proofVars, leaseVars, schedVars, configVars>>

\* The indices of the records of the list that carry the evidence id.
Matching(evidenceList, evidenceId) ==
    {i \in DOMAIN evidenceList : evidenceList[i].evidenceId = evidenceId}

\* The index the loop of verifyEvidence stops at: the first match.
FirstMatch(evidenceList, evidenceId) ==
    CHOOSE i \in Matching(evidenceList, evidenceId) :
        \A j \in Matching(evidenceList, evidenceId) : i <= j

\* A faulty variant of MarkVerified: the flag is flipped.
ToggleVerified(evidence) == [evidence EXCEPT !.verified = ~@]

\* evidenceList[i].verified = true
MarkVerified(evidence) == [evidence EXCEPT !.verified = TRUE]

\* onlyOwner, then the loop: the first record with the id is marked and the
\* loop breaks; when no record has the id the call returns without a revert.
verifyEvidence(sender, leaseId, evidenceId) ==
    LET revert == IF sender # Owner THEN "OwnableUnauthorizedAccount" ELSE ""
        evidenceList == leaseEvidence[leaseId]
    IN  /\ txRet' = TxOutcome("verifyEvidence", revert)
        /\ IF revert # "" \/ Matching(evidenceList, evidenceId) = {}
           THEN UNCHANGED leaseEvidence
           ELSE leaseEvidence' =
                    [leaseEvidence EXCEPT ![leaseId] =
                        [@ EXCEPT ![FirstMatch(evidenceList, evidenceId)] = MarkVerified(@)]]
        /\ UNCHANGED <<disputePackages, leaseDisputes, userDisputes, disputeExpiryDays,
                       minEvidenceCount, maxEvidenceCount, blockTimestamp,
                       serviceVars, merkleVars, proofVars, leaseVars, schedVars, configVars>>

----------------------------------------------------------------------------
(* SpecLedger: evidence added to a lease and verified *)

EvidenceTypes == {"", "receipt"}

ArweaveTxInputs == {"", "lease-tx", "receipt-tx"}

ContentHashes == {"", "sha-1"}

\* The evidence ids a call can name: every id the contract can generate, and
\* one it cannot.
LedgerEvidenceIds ==
    {_generateEvidenceId(l, k, t, a) :
        l \in ChainLeases \ {""}, k \in EvidenceTypes \ {""}, t \in BlockTimes, a \in Accounts}
        \cup {"no-such-evidence"}

\* At most MaxEvidence records are added to a lease.
AddEvidence ==
    \E sender \in Accounts, leaseId \in ChainLeases, evidenceType \in EvidenceTypes,
       arweaveTxId \in ArweaveTxInputs, contentHash \in ContentHashes :
        /\ Len(leaseEvidence[leaseId]) < MaxEvidence
        /\ addEvidence(sender, leaseId, evidenceType, arweaveTxId, contentHash)

VerifyEvidence ==
    \E sender \in Accounts, leaseId \in ChainLeases, evidenceId \in LedgerEvidenceIds :
        verifyEvidence(sender, leaseId, evidenceId)

LedgerNext ==
    \/ AddEvidence
    \/ VerifyEvidence
    \/ Mine

SpecLedger == Init /\ [][LedgerNext]_vars

----------------------------------------------------------------------------
(* SpecCase: disputes created over the evidence added to a lease *)

CaseNext ==
    \/ AddEvidence
    \/ Create
    \/ Mine

SpecCase == Init /\ [][CaseNext]_vars

----------------------------------------------------------------------------

(* LeaseService: createLease, signLease, updateLease, terminateLease *)

\* The one id uuidv4() hands out when leaseData.leaseId is empty.
LeaseUuid == "lease-uuid"

\* The wallet addresses a lease is created with; "" is a missing address.
PartyInputs == Wallets \cup {""}

\* The callers of signLease, updateLease and terminateLease.
Callers == Wallets \cup {"stranger"}

\* The lease data handed to createLease: a lease id is given, and terms hash,
\* currency, deposit and the two dates are taken to be valid.
LeaseDataInputs ==
    [leaseId : {"lease-1"}, landlordAddr : PartyInputs, tenantAddr : PartyInputs,
     rent : {0, 1000}]

\* validateLeaseData: every failed test throws ValidationError.
ValidateLeaseData(leaseData) ==
    IF leaseData.landlordAddr = "" THEN "ValidationError"
    ELSE IF leaseData.tenantAddr = "" THEN "ValidationError"
    ELSE IF leaseData.rent <= 0 THEN "ValidationError"
    ELSE ""

\* The lease object createLease stores; of its fields those that signLease,
\* updateLease and terminateLease read or write, and the rent.
NewLease(leaseId, leaseData) ==
    [ leaseId |-> leaseId,
      landlordAddr |-> leaseData.landlordAddr,
      tenantAddr |-> leaseData.tenantAddr,
      rent |-> leaseData.rent,
      status |-> "draft",
      signatures |-> {},
      signatureCount |-> 0 ]

LeaseService_createLease(leaseData) ==
    LET leaseId == IF leaseData.leaseId # "" THEN leaseData.leaseId ELSE LeaseUuid
        err == IF ValidateLeaseData(leaseData) # "" THEN ValidateLeaseData(leaseData)
               ELSE IF leaseId \in DOMAIN leaseDb THEN "ValidationError"
               ELSE ""
    IN  /\ ret' = Outcome("createLease", err, 0)
        /\ IF err # ""
           THEN leaseDb' = leaseDb
           ELSE leaseDb' = (leaseId :> NewLease(leaseId, leaseData)) @@ leaseDb
        /\ UNCHANGED <<db, now, leases, merkleVars, proofVars, chainVars, ledgerVars, schedVars, configVars>>

\* The tests of signLease, in order.
SignLeaseError(leaseId, walletAddress) ==
    IF leaseId \notin DOMAIN leaseDb THEN "NotFoundError"
    ELSE IF /\ leaseDb[leaseId].landlordAddr # walletAddress
            /\ leaseDb[leaseId].tenantAddr # walletAddress THEN "ValidationError"
    ELSE IF walletAddress \in leaseDb[leaseId].signatures THEN "ValidationError"
    ELSE IF leaseDb[leaseId].status # "draft" THEN "ValidationError"
    ELSE ""

\* lease.signatures.add(walletAddress); lease.signatureCount++; and the
\* status becomes 'active' when the count is 2.
SignedLease(lease, walletAddress) ==
    LET signed == [lease EXCEPT !.signatures = @ \cup {walletAddress},
                                !.signatureCount = @ + 1]
    IN  IF signed.signatureCount = 2 THEN [signed EXCEPT !.status = "active"] ELSE signed

\* Returns { signatureCount, status }; the count is kept in ret.
LeaseService_signLease(leaseId, walletAddress) ==
    LET err == SignLeaseError(leaseId, walletAddress)
    IN  /\ IF err # ""
           THEN /\ leaseDb' = leaseDb
                /\ ret' = Outcome("signLease", err, 0)
           ELSE /\ leaseDb' = [leaseDb EXCEPT ![leaseId] = SignedLease(@, walletAddress)]
                /\ ret' = Outcome("signLease", "", leaseDb'[leaseId].signatureCount)
        /\ UNCHANGED <<db, now, leases, merkleVars, proofVars, chainVars, ledgerVars, schedVars, configVars>>

\* The updates handed to updateLease: new terms, or any other field.
LeaseUpdates == {[rent |-> 2000], [status |-> "active"]}

\* Object.assign(lease, updates), for updates that name fields of the lease.
Assigned(lease, updates) ==
    [f \in DOMAIN lease |-> IF f \in DOMAIN updates THEN updates[f] ELSE lease[f]]

\* updateLease tests that the lease exists and that the caller is a party,
\* and copies every field of updates into the lease.
LeaseService_updateLease(leaseId, updates, walletAddress) ==
    LET err == IF leaseId \notin DOMAIN leaseDb THEN "NotFoundError"
               ELSE IF /\ leaseDb[leaseId].landlordAddr # walletAddress
                       /\ leaseDb[leaseId].tenantAddr # walletAddress
                    THEN "ValidationError"
               ELSE ""
    IN  /\ ret' = Outcome("updateLease", err, 0)
        /\ IF err # ""
           THEN leaseDb' = leaseDb
           ELSE leaseDb' = [leaseDb EXCEPT ![leaseId] = Assigned(@, updates)]
        /\ UNCHANGED <<db, now, leases, merkleVars, proofVars, chainVars, ledgerVars, schedVars, configVars>>

LeaseService_terminateLease(leaseId, walletAddress) ==
    LET err == IF leaseId \notin DOMAIN leaseDb THEN "NotFoundError"
               ELSE IF leaseDb[leaseId].landlordAddr # walletAddress THEN "ValidationError"
               ELSE IF leaseDb[leaseId].status # "active" THEN "ValidationError"
               ELSE ""
    IN  /\ ret' = Outcome("terminateLease", err, 0)
        /\ IF err # ""
           THEN leaseDb' = leaseDb
           ELSE leaseDb' = [leaseDb EXCEPT ![leaseId].status = "terminated"]
        /\ UNCHANGED <<db, now, leases, merkleVars, proofVars, chainVars, ledgerVars, schedVars, configVars>>

----------------------------------------------------------------------------

(* RentalContract: createLease, signLease, terminateLease *)

\* address(0) and the accounts.
TenantInputs == {0} \cup Accounts

\* The require statements of createLease, in order. End date, deposit and
\* currency are taken to be valid.
CreateLeaseRevert(leaseId, tenant, startDate, rentAmount, termsHash) ==
    IF leaseId = "" THEN "Lease ID cannot be empty"
    ELSE IF tenant = 0 THEN "Invalid tenant address"
    ELSE IF ~(startDate > blockTimestamp) THEN "Start date must be in the future"
    ELSE IF ~(rentAmount > 0) THEN "Rent amount must be greater than 0"
    ELSE IF termsHash = "" THEN "Terms hash cannot be empty"
    ELSE IF leaseId \in DOMAIN leases THEN "Lease ID already exists"
    ELSE ""

\* The struct createLease fills in; of its fields those that signLease and
\* terminateLease read or write. signatures is the set of the addresses the
\* mapping holds true for.
NewChainLease(sender, leaseId, tenant) ==
    [ leaseId |-> leaseId,
      landlord |-> sender,
      tenant |-> tenant,
      status |-> "DRAFT",
      signatures |-> {},
      signatureCount |-> 0 ]

RentalContract_createLease(sender, leaseId, tenant, startDate, rentAmount, termsHash) ==
    LET revert == CreateLeaseRevert(leaseId, tenant, startDate, rentAmount, termsHash)
    IN  /\ txRet' = TxOutcome("createLease", revert)
        /\ IF revert # ""
           THEN leases' = leases
           ELSE leases' = (leaseId :> NewChainLease(sender, leaseId, tenant)) @@ leases
        /\ UNCHANGED <<disputePackages, leaseDisputes, userDisputes, disputeExpiryDays,
                       minEvidenceCount, maxEvidenceCount, blockTimestamp, leaseDb,
                       serviceVars, merkleVars, proofVars, ledgerVars, schedVars, configVars>>

\* leaseExists, onlyLeaseParty, and the two require statements of signLease.
SignLeaseRevert(sender, leaseId) ==
    IF leaseId \notin DOMAIN leases THEN "Lease does not exist"
    ELSE IF sender # leases[leaseId].landlord /\ sender # leases[leaseId].tenant
         THEN "Only lease parties can perform this action"
    ELSE IF sender \in leases[leaseId].signatures THEN "Already signed by this party"
    ELSE IF leases[leaseId].status # "DRAFT" THEN "Lease is not in draft status"
    ELSE ""

\* lease.signatures[msg.sender] = true; lease.signatureCount++; and the
\* status becomes ACTIVE when the count is 2.
SignedChainLease(lease, sender) ==
    LET signed == [lease EXCEPT !.signatures = @ \cup {sender},
                                !.signatureCount = @ + 1]
    IN  IF signed.signatureCount = 2 THEN [signed EXCEPT !.status = "ACTIVE"] ELSE signed

RentalContract_signLease(sender, leaseId) ==
    LET revert == SignLeaseRevert(sender, leaseId)
    IN  /\ txRet' = TxOutcome("signLease", revert)
        /\ IF revert # ""
           THEN leases' = leases
           ELSE leases' = [leases EXCEPT ![leaseId] = SignedChainLease(@, sender)]
        /\ UNCHANGED <<disputePackages, leaseDisputes, userDisputes, disputeExpiryDays,
                       minEvidenceCount, maxEvidenceCount, blockTimestamp, leaseDb,
                       serviceVars, merkleVars, proofVars, ledgerVars, schedVars, configVars>>

\* leaseExists, onlyLandlord, and the require statement of terminateLease.
RentalContract_terminateLease(sender, leaseId) ==
    LET revert == IF leaseId \notin DOMAIN leases THEN "Lease does not exist"
                  ELSE IF sender # leases[leaseId].landlord
                       THEN "Only landlord can perform this action"
                  ELSE IF leases[leaseId].status # "ACTIVE" THEN "Lease is not active"
                  ELSE ""
    IN  /\ txRet' = TxOutcome("terminateLease", revert)
        /\ IF revert # ""
           THEN leases' = leases
           ELSE leases' = [leases EXCEPT ![leaseId].status = "TERMINATED"]
        /\ UNCHANGED <<disputePackages, leaseDisputes, userDisputes, disputeExpiryDays,
                       minEvidenceCount, maxEvidenceCount, blockTimestamp, leaseDb,
                       serviceVars, merkleVars, proofVars, ledgerVars, schedVars, configVars>>

----------------------------------------------------------------------------
(* SpecLease: leases created, signed, updated and terminated, off-chain and *)
(* on-chain *)

\* The lease ids the service is called with: the one it is given at
\* creation, and one it is not.
LeaseIds == {"lease-1", "no-such-lease"}

CreateLease ==
    \E leaseData \in LeaseDataInputs : LeaseService_createLease(leaseData)

SignLease ==
    \E leaseId \in LeaseIds, walletAddress \in Callers :
        LeaseService_signLease(leaseId, walletAddress)

UpdateLease ==
    \E leaseId \in LeaseIds, updates \in LeaseUpdates, walletAddress \in Callers :
        LeaseService_updateLease(leaseId, updates, walletAddress)

TerminateLease ==
    \E leaseId \in LeaseIds, walletAddress \in Callers :
        LeaseService_terminateLease(leaseId, walletAddress)

ChainCreateLease ==
    \E sender \in Accounts, leaseId \in ChainLeases, tenant \in TenantInputs,
       startDate \in {0, 1}, rentAmount \in {0, 1000}, termsHash \in {"", "terms"} :
        RentalContract_createLease(sender, leaseId, tenant, startDate, rentAmount, termsHash)

ChainSignLease ==
    \E sender \in Accounts, leaseId \in ChainLeases :
        RentalContract_signLease(sender, leaseId)

ChainTerminateLease ==
    \E sender \in Accounts, leaseId \in ChainLeases :
        RentalContract_terminateLease(sender, leaseId)

LeaseNext ==
    \/ CreateLease
    \/ SignLease
    \/ UpdateLease
    \/ TerminateLease
    \/ ChainCreateLease
    \/ ChainSignLease
    \/ ChainTerminateLease

SpecLease == Init /\ [][LeaseNext]_vars

----------------------------------------------------------------------------

(* The two SchedulerService classes: executeWithRetry and the expiry job *)

\* The class of services/scheduler.js (scheduler.initialize()) and the class
\* of services/schedulerService.js (schedulerService.start()).
Schedulers == {"scheduler", "schedulerService"}

\* 'dispute-expiry', and a job registered through scheduleJob(name, schedule,
\* task) with a task that may reject.
Jobs == {"dispute-expiry", "any-job"}

\* scheduler.js: this.retryAttempts = 3; this.retryDelay = 5000
retryAttempts == 3
retryDelay == 5000

\* schedulerService.js reads its limits from the config, which has no
\* SCHEDULER_MAX_RETRIES and no SCHEDULER_RETRY_DELAY key.
SCHEDULER_MAX_RETRIES == Undefined
SCHEDULER_RETRY_DELAY == Undefined

\* JavaScript's a < b and a * b on numbers: with undefined (NaN) on a side
\* the comparison is false and the product is NaN.
JsLess(a, b) == IF a = Undefined \/ b = Undefined THEN FALSE ELSE a < b

JsTimes(a, b) == IF a \in {Undefined, NaN} \/ b \in {Undefined, NaN} THEN NaN ELSE a * b

\* The test at the head of the retry loop, after `attempts` attempts:
\* for (attempt = 1; attempt <= this.retryAttempts; attempt++) in scheduler.js,
\* while (attempts < this.maxRetries) in schedulerService.js.
LoopContinues(impl, attempts) ==
    IF impl = "scheduler"
    THEN attempts + 1 <= retryAttempts
    ELSE JsLess(attempts, SCHEDULER_MAX_RETRIES)

\* The test in the catch block, in the attempt numbered `attempt`.
RetryFollows(impl, attempt) ==
    IF impl = "scheduler"
    THEN attempt < retryAttempts
    ELSE JsLess(attempt, SCHEDULER_MAX_RETRIES)

\* A faulty variant of RetryWait: the same delay before every retry.
FixedWait(impl, attempt) ==
    IF impl = "scheduler" THEN retryDelay ELSE SCHEDULER_RETRY_DELAY

\* The delay slept after the failed attempt numbered `attempt`:
\* this.retryDelay * attempt in scheduler.js,
\* this.retryDelay * Math.pow(2, attempts - 1) in schedulerService.js.
RetryWait(impl, attempt) ==
    IF impl = "scheduler"
    THEN retryDelay * attempt
    ELSE JsTimes(SCHEDULER_RETRY_DELAY, 2 ^ (attempt - 1))

\* What the task of the job does to the Map of dispute packages when it is
\* invoked. schedulerService.js: executeDisputeExpiryChecks calls
\* disputeService.cleanupExpiredDisputes(). scheduler.js: the task calls
\* this.processDisputeExpiry(), which is the placeholder defined last in the
\* class body (and the method it replaces reads getExpiringDisputes(), which
\* returns []): no package is touched.
TaskResult(impl, job, d, t) ==
    IF impl = "schedulerService" /\ job = "dispute-expiry" THEN Cleaned(d, t) ELSE d

\* Whether an invocation of the task can reject. The tasks of scheduler.js
\* are () => { this.processX(); }: the promise is dropped and the task
\* returns at once. cleanupExpiredDisputes has nothing that throws.
TaskOutcomes(impl, job) ==
    IF job = "any-job" THEN {"ok", "rejected"} ELSE {"ok"}

\* The cron callback calls executeWithRetry(jobName, task): attempts = 0,
\* lastError = null.
Fire ==
    /\ run.pc \in {"idle", "done"}
    /\ \E impl \in Schedulers, job \in Jobs :
           run' = Firing(impl, job, "loop", 0, 0, <<>>, "")
    /\ UNCHANGED <<serviceVars, merkleVars, proofVars, chainVars, ledgerVars, leaseVars, configVars>>

\* One pass of the loop body: the task is invoked; when it resolves the call
\* returns, when it rejects and a retry follows the delay is slept.
Attempt ==
    /\ run.pc = "loop"
    /\ LoopContinues(run.impl, run.attempts)
    /\ \E outcome \in TaskOutcomes(run.impl, run.job) :
           LET attempt == run.attempts + 1
           IN  /\ db' = TaskResult(run.impl, run.job, db, now)
               /\ run' =
                    IF outcome = "ok"
                    THEN [run EXCEPT !.pc = "done", !.attempts = attempt,
                                     !.invoked = @ + 1]
                    ELSE IF RetryFollows(run.impl, attempt)
                    THEN [run EXCEPT !.pc = "sleep", !.attempts = attempt,
                                     !.invoked = @ + 1,
                                     !.waits = Append(@, RetryWait(run.impl, attempt))]
                    ELSE [run EXCEPT !.attempts = attempt, !.invoked = @ + 1]
    /\ UNCHANGED <<now, ret, merkleVars, proofVars, chainVars, ledgerVars, leaseVars, configVars>>

\* The timer of sleep(delay) runs out.
Wake ==
    /\ run.pc = "sleep"
    /\ run' = [run EXCEPT !.pc = "loop"]
    /\ UNCHANGED <<serviceVars, merkleVars, proofVars, chainVars, ledgerVars, leaseVars, configVars>>

\* The loop is left without a success. scheduler.js throws SchedulerError.
\* schedulerService.js logs lastError.message and returns; lastError is null
\* when the loop body never ran, and reading its message throws TypeError.
Exhausted ==
    /\ run.pc = "loop"
    /\ ~LoopContinues(run.impl, run.attempts)
    /\ run' = [run EXCEPT !.pc = "done",
                          !.err = IF run.impl = "scheduler" THEN "SchedulerError"
                                  ELSE IF run.attempts = 0 THEN "TypeError"
                                  ELSE ""]
    /\ UNCHANGED <<serviceVars, merkleVars, proofVars, chainVars, ledgerVars, leaseVars, configVars>>

----------------------------------------------------------------------------
(* SpecScheduler: jobs fired by cron over the dispute packages of the service *)

SchedulerNext ==
    \/ Build
    \/ Tick
    \/ Fire
    \/ Attempt
    \/ Wake
    \/ Exhausted

SpecScheduler == Init /\ [][SchedulerNext]_vars

----------------------------------------------------------------------------

(* DisputeService.cleanupExpiredDisputes when the update of a case throws *)

\* The ids the second loop has updated when it reaches the case `bad`: the
\* loop follows the insertion order of the Map, so every collected case
\* created before `bad` has been updated and none created after it; cases
\* created at the same reading may stand on either side.
UpdatedBefore(d, t, bad) ==
    {done \in SUBSET (ExpiredDisputes(d, t) \ {bad}) :
        \A id \in ExpiredDisputes(d, t) \ {bad} :
            /\ d[id].createdAt < d[bad].createdAt => id \in done
            /\ d[id].createdAt > d[bad].createdAt => id \notin done}

\* The update of the case `bad` throws, before or after its status is
\* written. The loop body has no try of its own: the exception leaves the
\* loop, the catch of the function logs it and throws it again.
CleanupExpiredDisputesThrows ==
    /\ \E bad \in ExpiredDisputes(db, now), written \in BOOLEAN :
         \E done \in UpdatedBefore(db, now, bad) :
           db' = [id \in DOMAIN db |->
                    IF id \in done \/ (id = bad /\ written)
                    THEN Expire(db[id], now)
                    ELSE db[id]]
    /\ ret' = Outcome("cleanupExpiredDisputes", "Error", 0)
    /\ UNCHANGED <<now, merkleVars, proofVars, chainVars, ledgerVars, leaseVars, schedVars, configVars>>

----------------------------------------------------------------------------
(* SpecSweep: sweeps that run through and sweeps that throw *)

SweepNext ==
    \/ Build
    \/ Tick
    \/ CleanupExpiredDisputes
    \/ CleanupExpiredDisputesThrows

SpecSweep == Init /\ [][SweepNext]_vars

----------------------------------------------------------------------------

(* The DisputeResolution contract: updateDisputeExpiryDays, updateEvidenceLimits *)

\* The modifier onlyOwner, then the require of updateDisputeExpiryDays.
ExpiryDaysRevert(sender, newExpiryDays) ==
    IF sender # Owner THEN "OwnableUnauthorizedAccount"
    ELSE IF ~(newExpiryDays >= 7 /\ newExpiryDays <= 365)
         THEN "Expiry must be between 7 and 365 days"
    ELSE ""

updateDisputeExpiryDays(sender, newExpiryDays) ==
    LET revert == ExpiryDaysRevert(sender, newExpiryDays)
    IN  /\ txRet' = TxOutcome("updateDisputeExpiryDays", revert)
        /\ disputeExpiryDays' = IF revert # "" THEN disputeExpiryDays ELSE newExpiryDays
        /\ UNCHANGED <<disputePackages, leaseDisputes, userDisputes, minEvidenceCount,
                       maxEvidenceCount, blockTimestamp, serviceVars, merkleVars, proofVars,
                       ledgerVars, leaseVars, schedVars, configVars>>

\* A faulty variant of EvidenceLimitsRevert: the two counts are not compared.
EvidenceLimitsRevertUnordered(sender, minCount, maxCount) ==
    IF sender # Owner THEN "OwnableUnauthorizedAccount"
    ELSE IF ~(minCount >= 1) THEN "Min count must be at least 1"
    ELSE IF ~(maxCount <= 1000) THEN "Max count cannot exceed 1000"
    ELSE ""

\* The modifier onlyOwner, then the three requires of updateEvidenceLimits in
\* their order.
EvidenceLimitsRevert(sender, minCount, maxCount) ==
    IF sender # Owner THEN "OwnableUnauthorizedAccount"
    ELSE IF ~(minCount >= 1) THEN "Min count must be at least 1"
    ELSE IF ~(maxCount <= 1000) THEN "Max count cannot exceed 1000"
    ELSE IF ~(minCount < maxCount) THEN "Min count must be less than max count"
    ELSE ""

updateEvidenceLimits(sender, minCount, maxCount) ==
    LET revert == EvidenceLimitsRevert(sender, minCount, maxCount)
    IN  /\ txRet' = TxOutcome("updateEvidenceLimits", revert)
        /\ minEvidenceCount' = IF revert # "" THEN minEvidenceCount ELSE minCount
        /\ maxEvidenceCount' = IF revert # "" THEN maxEvidenceCount ELSE maxCount
        /\ UNCHANGED <<disputePackages, leaseDisputes, userDisputes, disputeExpiryDays,
                       blockTimestamp, serviceVars, merkleVars, proofVars, ledgerVars,
                       leaseVars, schedVars, configVars>>

----------------------------------------------------------------------------
(* SpecExpiry: disputes created while the owner changes the expiry period *)

\* The expiry periods handed in: the two ends of the accepted range and the
\* values next to them.
ExpiryInputs == {6, 7, 365, 366}

UpdateExpiryDays ==
    \E sender \in Accounts, newExpiryDays \in ExpiryInputs :
        updateDisputeExpiryDays(sender, newExpiryDays)

ExpiryNext ==
    \/ Create
    \/ UpdateExpiryDays
    \/ Mine

SpecExpiry == Init /\ [][ExpiryNext]_vars

----------------------------------------------------------------------------
(* SpecLimits: disputes created while the owner changes the evidence limits *)

\* The pairs <<minCount, maxCount>> handed in: two the requires accept, and
\* one that fails each of them.
LimitInputs == {<<1, 1000>>, <<2, 3>>, <<0, 100>>, <<3, 1001>>, <<3, 3>>, <<100, 3>>}

UpdateEvidenceLimits ==
    \E sender \in Accounts, limits \in LimitInputs :
        updateEvidenceLimits(sender, limits[1], limits[2])

LimitsNext ==
    \/ Create
    \/ UpdateEvidenceLimits
    \/ Mine

SpecLimits == Init /\ [][LimitsNext]_vars

----------------------------------------------------------------------------

(* SpecConfig: the service started under every setting of DISPUTE_EXPIRY_DAYS *)

\* The values of the environment variable: not set, a text that is no
\* number, 0, the value below the range 7..365, its upper end and the value
\* above it.
EnvInputs ==
    { <<>>, <<"a", "b", "c">>, <<"0">>, <<"6">>, <<"3", "6", "5">>, <<"3", "6", "6">> }

\* The service after its constructor, in a process started with one of the
\* values; the configuration is loaded once, when config.js is required.
ConfigInit ==
    /\ db = <<>>
    /\ now = 0
    /\ ret = Outcome("", "", 0)
    /\ txIds = <<>>
    /\ offRoot = NotComputed
    /\ chainRoot = NotComputed
    /\ offFirst = NotComputed
    /\ chainFirst = NotComputed
    /\ ProofUnused
    /\ ChainDeployed
    /\ SchedulerIdle
    /\ LeasesEmpty
    /\ LedgerDeployed
    /\ processEnv \in EnvInputs

ConfigNext ==
    \/ Build
    \/ Tick

SpecConfig == ConfigInit /\ [][ConfigNext]_vars

----------------------------------------------------------------------------

(* SpecRepeats: cases built and created from lists that name an evidence *)
(* id twice *)

\* An evidence list in which an identifier occurs twice.
RepeatedInputs == { <<"lease-tx", "receipt-tx", "lease-tx">> }

BuildFromAnyList ==
    \E leaseId \in LeaseInputs, ids \in EvidenceInputs \cup RepeatedInputs,
       walletAddress \in Wallets :
        BuildDisputePackage(leaseId, ids, walletAddress)

CreateFromAnyList ==
    \E sender \in Accounts, leaseId \in ChainLeases,
       ids \in EvidenceInputs \cup RepeatedInputs :
        createDisputePackage(sender, leaseId, ids)

RepeatsNext ==
    \/ BuildFromAnyList
    \/ CreateFromAnyList

SpecRepeats == Init /\ [][RepeatsNext]_vars

----------------------------------------------------------------------------

(* Claims about the case lifecycle (Spec) *)

StoredStatuses == {"pending", "resolved", "expired"}

TerminalStatuses == {"resolved", "expired"}

\* C1: the status of a case only moves pending -> resolved or pending ->
\* expired: every stored status is one of pending, resolved, expired, and a
\* case that is resolved or expired keeps its status in every later step.
C1_StatusMonotonic ==
    [][\A id \in DOMAIN db' :
          /\ db'[id].status \in StoredStatuses
          /\ (id \in DOMAIN db /\ db[id].status \in TerminalStatuses)
                => db'[id].status = db[id].status]_vars

\* C2: of a resolve and a sweep on the same case past its expiry only the
\* first takes effect: a resolve of a case the sweep has expired fails and
\* changes nothing, and a sweep leaves a case that was resolved as it is.
C2_ResolveSweepExclusive ==
    [][\A id \in DOMAIN db :
          /\ (/\ db[id].status = "expired"
              /\ \E w \in Wallets : UpdateDisputeStatus(id, "resolved", w))
                => (ret'.err # "" /\ db' = db)
          /\ (db[id].status = "resolved" /\ CleanupExpiredDisputes)
                => db'[id] = db[id]]_vars

\* C3: resolving a case that is already resolved fails, and the case keeps
\* the status, resolver and timestamp of the first resolution.
C3_NoDoubleResolution ==
    [][\A id \in DOMAIN db :
          (/\ db[id].status = "resolved"
           /\ \E w \in Wallets : UpdateDisputeStatus(id, "resolved", w))
            => (ret'.err # "" /\ db'[id] = db[id])]_vars

\* C4: a sweep leaves every resolved case as it is, whatever the clock reads.
C4_SweepKeepsResolved ==
    [][CleanupExpiredDisputes =>
          \A id \in DOMAIN db :
              db[id].status = "resolved" => (id \in DOMAIN db' /\ db'[id] = db[id])]_vars

\* A sweep has just run over a resolved case whose expiry has passed.
C4_Witness ==
    /\ ret.op = "cleanupExpiredDisputes"
    /\ \E id \in DOMAIN db : db[id].status = "resolved" /\ db[id].expiresAt < now

\* No package expires at a clock reading from t1 up to, and not including, t2.
NoExpiryCrossed(t1, t2) ==
    \A id \in DOMAIN db : ~(t1 <= db[id].expiresAt /\ db[id].expiresAt < t2)

\* C5: after a sweep, a second sweep at the same clock reading, or at a later
\* one that no further expiry lies before, changes no case and returns 0.
C5_SweepIdempotent ==
    ret.op = "cleanupExpiredDisputes" =>
        \A t \in Instants :
            (t >= now /\ NoExpiryCrossed(now, t)) =>
                (Cleaned(db, t) = db /\ Cardinality(ExpiredDisputes(db, t)) = 0)

\* A sweep has just expired a case, and the clock can still move on without
\* reaching another expiry.
C5_Witness ==
    /\ ret.op = "cleanupExpiredDisputes"
    /\ ret.count >= 1
    /\ \E t \in Instants : t > now /\ NoExpiryCrossed(now, t)

\* C6: a sweep expires every pending case whose expiresAt is at or before the
\* clock reading, the case expiresAt = now included.
C6_SweepExpiresAtBoundary ==
    [][CleanupExpiredDisputes =>
          \A id \in DOMAIN db :
              (db[id].status = "pending" /\ db[id].expiresAt <= now)
                => db'[id].status = "expired"]_vars

\* C7: a sweep leaves every case whose expiresAt is later than the clock
\* reading as it is; a pending case created DISPUTE_EXPIRY_DAYS = 30 days
\* before its expiry is still pending after a sweep 29 days after its creation
\* and expired after a sweep 31 days after it.
C7_SweepKeepsUnexpired ==
    [][CleanupExpiredDisputes =>
          \A id \in DOMAIN db :
              /\ db[id].expiresAt > now => db'[id] = db[id]
              /\ (db[id].status = "pending" /\ now = db[id].createdAt + 29)
                    => db'[id].status = "pending"
              /\ (db[id].status = "pending" /\ now = db[id].createdAt + 31)
                    => db'[id].status = "expired"]_vars

\* A sweep has just run 29 days after the creation of a case that is pending.
C7_Witness ==
    /\ ret.op = "cleanupExpiredDisputes"
    /\ \E id \in DOMAIN db :
           /\ db[id].status = "pending"
           /\ db[id].updatedAt = Undefined
           /\ now = db[id].createdAt + 29

\* C8: a build request with fewer than MIN_EVIDENCE_COUNT or more than
\* MAX_EVIDENCE_COUNT evidence identifiers fails with a validation error and
\* stores nothing.
C8_EvidenceBounds ==
    [][\A leaseId \in LeaseInputs, ids \in EvidenceInputs, walletAddress \in Wallets :
          (/\ Len(ids) < MIN_EVIDENCE_COUNT \/ Len(ids) > MAX_EVIDENCE_COUNT
           /\ BuildDisputePackage(leaseId, ids, walletAddress))
            => (ret'.err = "ValidationError" /\ db' = db)]_vars

----------------------------------------------------------------------------
(* Claims about the Merkle builders (SpecMerkle) *)

\* C9: for a non-empty list of identifiers, every ordering of the list gives
\* the root its first build gave, off-chain and on-chain.
C9_OrderIndependent ==
    Len(txIds) >= 1 =>
        /\ (offRoot # NotComputed /\ offFirst # NotComputed) => offRoot = offFirst
        /\ (chainRoot # NotComputed /\ chainFirst # NotComputed) => chainRoot = chainFirst

\* The off-chain half alone: generateMerkleRoot gives every ordering of a
\* non-empty list the same root.
OffChainOrderIndependent ==
    (Len(txIds) >= 1 /\ offRoot # NotComputed /\ offFirst # NotComputed)
        => offRoot = offFirst

\* C10: for every non-empty list the on-chain builder and the off-chain builder,
\* over the same hash, give the same root.
C10_BuildersAgree ==
    (Len(txIds) >= 1 /\ offRoot # NotComputed /\ chainRoot # NotComputed)
        => offRoot = chainRoot

----------------------------------------------------------------------------
(* Claims about proof verification (SpecProof) *)

\* C11: for every leaf of a tree generateMerkleRoot built, verifyMerkleProof
\* returns true for the leaf, the proof read off the tree along the leaf's
\* path (sibling digest and side at each level, a duplicated odd node
\* included) and the root.
C11_ProofVerifies ==
    (verdict.done /\ proofState = "read") => verdict.value = TRUE

\* The proof of the last of three leaves, whose first sibling is the leaf's
\* own digest, has been verified.
C11_Witness ==
    /\ verdict.done
    /\ proofState = "read"
    /\ Len(txIds) = 3
    /\ Len(proof) = 2
    /\ proof[1].hash = Hash(leaf)
    /\ proof[1].position = "right"
    /\ proof[2].position = "left"

\* C12: from a leaf, proof and root that verify, replacing the leaf by another
\* value, or one sibling digest of the proof by another digest, makes
\* verifyMerkleProof return false.
C12_AlteredProofFails ==
    (verdict.done /\ proofState \in {"leafReplaced", "siblingReplaced"})
        => verdict.value = FALSE

\* A proof of two steps with one sibling digest replaced has been verified.
C12_Witness ==
    /\ verdict.done
    /\ proofState = "siblingReplaced"
    /\ Len(proof) = 2

\* C13: for a list of one identifier the root is the digest of the identifier,
\* and verifyMerkleProof returns true for the identifier, the empty proof and
\* that root.
C13_SingleLeaf ==
    Len(txIds) = 1 =>
        /\ offRoot # NotComputed => offRoot = Hash(txIds[1])
        /\ (verdict.done /\ proofState = "read") =>
               (leaf = txIds[1] /\ proof = <<>> /\ verdict.value = TRUE)

\* The empty proof of the one leaf of a list has been verified.
C13_Witness ==
    /\ Len(txIds) = 1
    /\ verdict.done
    /\ proofState = "read"
    /\ proof = <<>>
    /\ offRoot = Hash(leaf)

----------------------------------------------------------------------------
(* Claims about the shape of the trees (SpecMerkle) *)

RECURSIVE OffChainOddDuplicated(_)
\* At every level of the off-chain tree with an odd number of nodes, more
\* than one, the last parent is the digest of the last node with itself.
OffChainOddDuplicated(level) ==
    \/ Len(level) <= 1
    \/ /\ Len(level) % 2 = 1 =>
              NextLevel(level)[(Len(level) + 1) \div 2]
                  = Hash(level[Len(level)] \o level[Len(level)])
       /\ OffChainOddDuplicated(NextLevel(level))

RECURSIVE OnChainOddDuplicated(_)
\* The same for the on-chain tree.
OnChainOddDuplicated(level) ==
    \/ Len(level) <= 1
    \/ /\ Len(level) % 2 = 1 =>
              ChainNextLevel(level)[(Len(level) + 1) \div 2]
                  = Hash(level[Len(level)] \o level[Len(level)])
       /\ OnChainOddDuplicated(ChainNextLevel(level))

\* C14: at every level with an odd number of nodes the parent of the last
\* node is the digest of the last node paired with itself, in the tree of
\* the off-chain builder and in the tree of the on-chain builder.
C14_OddNodeDuplicated ==
    /\ offRoot # NotComputed => OffChainOddDuplicated(Leaves(SortedIds(txIds)))
    /\ chainRoot # NotComputed => OnChainOddDuplicated(ChainLeaves(txIds))

\* C16: for the empty list a builder fails with InvalidInput: it returns no
\* root, neither a zero root nor an undefined value.
C16_EmptyInputFails ==
    Len(txIds) = 0 =>
        /\ offRoot \in {NotComputed, "InvalidInput"}
        /\ chainRoot \in {NotComputed, "InvalidInput"}

----------------------------------------------------------------------------
(* Claims about building and verifying a case (SpecEvidence) *)

\* The list of the worked example.
ExampleIds == <<"lease-tx", "receipt-tx", "msg-tx">>

\* C15 as stated: building a case for ["lease-tx", "receipt-tx", "msg-tx"]
\* succeeds and stores the root
\* h(h(h("lease-tx") h("receipt-tx")) h(h("msg-tx") h("msg-tx"))).
C15_ExampleRootAsStated ==
    [][\A walletAddress \in Wallets :
          BuildDisputePackage("lease-1", ExampleIds, walletAddress) =>
              /\ ret'.err = ""
              /\ NewDisputeId \in DOMAIN db'
              /\ db'[NewDisputeId].merkleRoot =
                     Hash(Hash(Hash("lease-tx") \o Hash("receipt-tx"))
                          \o Hash(Hash("msg-tx") \o Hash("msg-tx")))]_vars

\* C15: building a case for ["lease-tx", "receipt-tx", "msg-tx"] succeeds and
\* stores the root of the sorted list lease-tx, msg-tx, receipt-tx:
\* h(h(h("lease-tx") h("msg-tx")) h(h("receipt-tx") h("receipt-tx"))).
C15_ExampleRoot ==
    [][\A walletAddress \in Wallets :
          BuildDisputePackage("lease-1", ExampleIds, walletAddress) =>
              /\ ret'.err = ""
              /\ NewDisputeId \in DOMAIN db'
              /\ db'[NewDisputeId].evidenceTxIds = ExampleIds
              /\ db'[NewDisputeId].merkleRoot =
                     Hash(Hash(Hash("lease-tx") \o Hash("msg-tx"))
                          \o Hash(Hash("receipt-tx") \o Hash("receipt-tx")))]_vars

\* A case for the list of the example has just been built.
C15_Witness ==
    /\ ret = Outcome("buildDisputePackage", "", 0)
    /\ \E id \in DOMAIN db :
           /\ db[id].evidenceTxIds = ExampleIds
           /\ db[id].arweaveTxId # NoArweaveTx

\* C17: for a stored case and an evidence id of the case, a proof that does
\* not recompute to the stored root gives false as a normal return:
\* verifyEvidenceInDispute throws nothing.
C17_MismatchReturnsFalse ==
    [][\A disputeId \in DOMAIN db, evidenceTxId \in EvidenceIds, merkleProof \in ProofInputs :
          (/\ VerifyEvidenceInDispute(disputeId, evidenceTxId, merkleProof)
           /\ Includes(db[disputeId].evidenceTxIds, evidenceTxId)
           /\ ~verifyMerkleProof(evidenceTxId, merkleProof, db[disputeId].merkleRoot))
            => ret'.err = ""]_vars

\* C18: verifyEvidenceInDispute fails with NotFound for an unknown case id
\* and for an evidence id that is not one of the case's, and in every other
\* call its outcome is the verdict on the proof against the stored root.
C18_UnknownIsNotFound ==
    [][\A disputeId \in DisputeIds, evidenceTxId \in EvidenceIds, merkleProof \in ProofInputs :
          VerifyEvidenceInDispute(disputeId, evidenceTxId, merkleProof) =>
              IF disputeId \notin DOMAIN db THEN ret'.err = "NotFoundError"
              ELSE IF ~Includes(db[disputeId].evidenceTxIds, evidenceTxId)
                   THEN ret'.err = "NotFoundError"
              ELSE (ret'.err = "") =
                       verifyMerkleProof(evidenceTxId, merkleProof, db[disputeId].merkleRoot)]_vars

\* C19: when the Arweave store fails during a build, the caller gets an
\* ArweaveError, the new case is stored as pending with its evidence list,
\* its root and no arweaveTxId, and every case stored before is as it was.
C19_AnchorFailureKeepsCase ==
    [][\A leaseId \in LeaseInputs, ids \in EvidenceInputs, walletAddress \in Wallets :
          BuildDisputePackageArweaveFails(leaseId, ids, walletAddress) =>
              /\ ret'.err = "ArweaveError"
              /\ NewDisputeId \in DOMAIN db'
              /\ db'[NewDisputeId].status = "pending"
              /\ db'[NewDisputeId].leaseId = leaseId
              /\ db'[NewDisputeId].evidenceTxIds = ids
              /\ db'[NewDisputeId].merkleRoot = generateMerkleRoot(ids)
              /\ db'[NewDisputeId].arweaveTxId = NoArweaveTx
              /\ \A id \in DOMAIN db : id \in DOMAIN db' /\ db'[id] = db[id]]_vars

\* A build has just failed at the Arweave store while another case was
\* already stored.
C19_Witness ==
    /\ ret = Outcome("buildDisputePackage", "ArweaveError", 0)
    /\ Cardinality(DOMAIN db) = 2
    /\ \E id \in DOMAIN db : db[id].arweaveTxId = NoArweaveTx /\ db[id].status = "pending"

----------------------------------------------------------------------------
(* Claims about the contract's registry (SpecChain) *)

\* The sender has created a dispute for the lease in the current block.
CreatedThisInstant(sender, leaseId) ==
    \E id \in DOMAIN disputePackages :
        /\ disputePackages[id].leaseId = leaseId
        /\ disputePackages[id].createdAt = blockTimestamp
        /\ Includes(userDisputes[sender], id)

\* C20: a second createDisputePackage for the same lease by the same sender at
\* the same block timestamp, with an accepted lease id and evidence count,
\* goes through and gets an id of its own: one more dispute is stored and
\* every dispute stored before is as it was.
C20_SameInstantDistinctIds ==
    [][\A sender \in Accounts, leaseId \in ChainLeases, ids \in EvidenceInputs :
          (/\ createDisputePackage(sender, leaseId, ids)
           /\ leaseId # ""
           /\ Len(ids) >= minEvidenceCount
           /\ Len(ids) <= maxEvidenceCount
           /\ CreatedThisInstant(sender, leaseId))
            => /\ txRet'.revert = ""
               /\ Cardinality(DOMAIN disputePackages') = Cardinality(DOMAIN disputePackages) + 1
               /\ \A id \in DOMAIN disputePackages :
                      disputePackages'[id] = disputePackages[id]]_vars

----------------------------------------------------------------------------
(* Claims about resolving a case (Spec) *)

\* C21: resolving a case fails with NotFoundError for an unknown id and fails
\* for a case that is not pending (resolved or expired), leaving the Map as it
\* was in both failures; resolving a pending case succeeds and records the
\* status, the resolver and the time of the call in the one step.
C21_ResolveGuards ==
    [][\A id \in DisputeIds, w \in Wallets :
          UpdateDisputeStatus(id, "resolved", w)
            => IF id \notin DOMAIN db
               THEN ret'.err = "NotFoundError" /\ db' = db
               ELSE IF db[id].status # "pending"
               THEN ret'.err \notin {"", "NotFoundError"} /\ db' = db
               ELSE /\ ret'.err = ""
                    /\ db' = [db EXCEPT ![id] = WithStatus(@, "resolved", w, now)]]_vars

----------------------------------------------------------------------------
(* Claims about the audit trail (SpecEvidence) *)

\* C22: a stored case is never deleted: after every step getDisputePackage
\* still returns each case stored before it, and the case is still in the
\* listing of its lease and in the listing of its creator.
C22_NeverDeleted ==
    [][\A id \in DOMAIN db :
          /\ getDisputePackage(db', id).err = ""
          /\ id \in getLeaseDisputes(db', db[id].leaseId)
          /\ id \in getUserDisputes(db', db[id].createdBy)]_vars

----------------------------------------------------------------------------
(* Claims about the evidence records (SpecLedger) *)

\* C23: the verified flag is one-way. A record is pushed with verified =
\* false; in every step each record already stored stays where it is and
\* either is unchanged or differs only in verified having become true, which
\* happens only in a verifyEvidence sent by the owner.
C23_VerifiedOneWay ==
    [][\A l \in ChainLeases :
          /\ Len(leaseEvidence'[l]) >= Len(leaseEvidence[l])
          /\ \A i \in DOMAIN leaseEvidence'[l] \ DOMAIN leaseEvidence[l] :
                 ~leaseEvidence'[l][i].verified
          /\ \A i \in DOMAIN leaseEvidence[l] :
                 \/ leaseEvidence'[l][i] = leaseEvidence[l][i]
                 \/ /\ ~leaseEvidence[l][i].verified
                    /\ leaseEvidence'[l][i] = [leaseEvidence[l][i] EXCEPT !.verified = TRUE]
                    /\ \E evidenceId \in LedgerEvidenceIds :
                           verifyEvidence(Owner, l, evidenceId)]_vars

\* A lease has two records with different ids; the owner's verifyEvidence has
\* marked the first and the second is still unverified.
C23_Witness ==
    /\ txRet = TxOutcome("verifyEvidence", "")
    /\ \E l \in ChainLeases :
           /\ Len(leaseEvidence[l]) = 2
           /\ leaseEvidence[l][1].verified
           /\ ~leaseEvidence[l][2].verified
           /\ leaseEvidence[l][1].evidenceId # leaseEvidence[l][2].evidenceId

\* C24: verifyEvidence for an evidence id that no record of the lease carries
\* fails; for a record that is already verified it goes through and leaves
\* the records as they were.
C24_VerifyUnknownFails ==
    [][\A l \in ChainLeases, evidenceId \in LedgerEvidenceIds :
          verifyEvidence(Owner, l, evidenceId)
            => IF Matching(leaseEvidence[l], evidenceId) = {}
               THEN txRet'.revert # "" /\ leaseEvidence' = leaseEvidence
               ELSE /\ txRet'.revert = ""
                    /\ leaseEvidence[l][FirstMatch(leaseEvidence[l], evidenceId)].verified
                          => leaseEvidence' = leaseEvidence]_vars

\* C25: no two evidence records carry the same evidence id.
C25_UniqueEvidenceIds ==
    \A l1, l2 \in ChainLeases :
        \A i \in DOMAIN leaseEvidence[l1], j \in DOMAIN leaseEvidence[l2] :
            (l1 # l2 \/ i # j)
                => leaseEvidence[l1][i].evidenceId # leaseEvidence[l2][j].evidenceId

\* The lease has an evidence record for the identifier, taken as the
\* record's evidence id or as its Arweave transaction id.
EvidenceStored(leaseId, x) ==
    \E i \in DOMAIN leaseEvidence[leaseId] :
        \/ leaseEvidence[leaseId][i].evidenceId = x
        \/ leaseEvidence[leaseId][i].arweaveTxId = x

\* C26: createDisputePackage with an evidence identifier for which the lease
\* has no evidence record fails and stores nothing.
C26_UnknownEvidenceRejected ==
    [][\A sender \in Accounts, leaseId \in ChainLeases, ids \in EvidenceInputs :
          (/\ createDisputePackage(sender, leaseId, ids)
           /\ \E k \in DOMAIN ids : ~EvidenceStored(leaseId, ids[k]))
            => /\ txRet'.revert # ""
               /\ UNCHANGED <<disputePackages, leaseDisputes, userDisputes>>]_vars

----------------------------------------------------------------------------
(* Claims about signing a lease (SpecLease) *)

\* The count is the number of parties recorded as signers, at most 2; the
\* lease is active only with both parties' signatures, and with both
\* parties' signatures it is no longer a draft.
SignaturesConsistent(landlord, tenant, signatures, signatureCount, isActive, isDraft) ==
    /\ signatures \subseteq {landlord, tenant}
    /\ signatureCount = Cardinality(signatures)
    /\ signatureCount <= 2
    /\ isActive => {landlord, tenant} \subseteq signatures
    /\ {landlord, tenant} \subseteq signatures => ~isDraft

\* C27: a lease becomes active exactly when both the landlord and the tenant
\* have signed it. After every step, off-chain and on-chain, signatureCount
\* is the number of distinct parties who signed, the lease is active only if
\* both signatures are recorded and has left the draft status once they are;
\* and a signLease by a party who has signed already is rejected and changes
\* nothing.
C27_ActiveIffBothSigned ==
    [][/\ \A id \in DOMAIN leaseDb' :
              SignaturesConsistent(leaseDb'[id].landlordAddr, leaseDb'[id].tenantAddr,
                                   leaseDb'[id].signatures, leaseDb'[id].signatureCount,
                                   leaseDb'[id].status = "active",
                                   leaseDb'[id].status = "draft")
       /\ \A id \in DOMAIN leases' :
              SignaturesConsistent(leases'[id].landlord, leases'[id].tenant,
                                   leases'[id].signatures, leases'[id].signatureCount,
                                   leases'[id].status = "ACTIVE",
                                   leases'[id].status = "DRAFT")
       /\ \A id \in DOMAIN leaseDb, w \in Callers :
              (w \in leaseDb[id].signatures /\ LeaseService_signLease(id, w))
                => (ret'.err # "" /\ leaseDb' = leaseDb)
       /\ \A id \in DOMAIN leases, a \in Accounts :
              (a \in leases[id].signatures /\ RentalContract_signLease(a, id))
                => (txRet'.revert # "" /\ leases' = leases)]_vars

----------------------------------------------------------------------------
(* Claims about the scheduled jobs (SpecScheduler, SpecSweep) *)

\* C28: every firing of the 'dispute-expiry' job runs the expiry sweep: when
\* the firing ends, no pending case whose expiry the clock has passed is left
\* pending, so that under fair firing every such case is eventually expired.
C28_FiringRunsSweep ==
    [][(/\ run'.job = "dispute-expiry"
        /\ run'.pc = "done"
        /\ run.pc # "done")
          => ExpiredDisputes(db', now') = {}]_vars

AttemptLimit(impl) ==
    IF impl = "scheduler" THEN retryAttempts ELSE SCHEDULER_MAX_RETRIES

----------------------------------------------------------------------------
(* Claims about the lifetime of a case (SpecExpiry) *)

OffChainExpiryFixed ==
    [][ /\ \A id \in DOMAIN db :
             id \in DOMAIN db' => /\ db'[id].createdAt = db[id].createdAt
                                  /\ db'[id].expiresAt = db[id].expiresAt
        /\ \A id \in DOMAIN db' \ DOMAIN db :
             /\ db'[id].createdAt = now
             /\ db'[id].expiresAt - db'[id].createdAt = DISPUTE_EXPIRY_DAYS ]_vars

----------------------------------------------------------------------------
(* Claims about the expiry period (SpecConfig, SpecExpiry) *)

\* The contract's expiry period lies between 7 and 365 days.
ChainExpiryInRange == 7 <= disputeExpiryDays /\ disputeExpiryDays <= 365

\* The contract keeps its period in the range: every step ends in the range,
\* and an updateDisputeExpiryDays that reverts leaves the period as it was.
ChainExpiryGuarded ==
    [][ /\ ChainExpiryInRange'
        /\ (UpdateExpiryDays /\ txRet'.revert # "")
               => disputeExpiryDays' = disputeExpiryDays
        /\ \A id \in DOMAIN disputePackages' \ DOMAIN disputePackages :
               /\ 7 <= disputePackages'[id].expiresAt - disputePackages'[id].createdAt
               /\ disputePackages'[id].expiresAt - disputePackages'[id].createdAt <= 365 ]_vars

\* C32: the expiry period used for new cases is always between 7 and 365
\* days: the contract's setting is in that range, and every package the
\* service has stored expires between 7 and 365 days after its creation.
C32_ExpiryPeriodInRange ==
    /\ ChainExpiryInRange
    /\ \A id \in DOMAIN db :
           /\ 7 <= db[id].expiresAt - db[id].createdAt
           /\ db[id].expiresAt - db[id].createdAt <= 365

----------------------------------------------------------------------------
(* Claims about the resolution of a case (Spec, SpecChain) *)

\* The package carries a resolution text that is not empty.
HasResolution(dispute) == "resolution" \in DOMAIN dispute /\ dispute.resolution # ""

\* The contract's disputes: resolved exactly when a resolution text and a
\* resolver are recorded.
ChainResolutionIffResolved ==
    \A id \in DOMAIN disputePackages :
        disputePackages[id].resolved
            <=> (disputePackages[id].resolution # "" /\ disputePackages[id].resolver # 0)

\* C33: a case has a resolution (a text that is not empty, with the resolver)
\* if and only if it is resolved: no pending or expired case carries one and
\* no resolved case lacks one.
C33_ResolutionIffResolved ==
    /\ \A id \in DOMAIN db : (db[id].status = "resolved") <=> HasResolution(db[id])
    /\ ChainResolutionIffResolved

----------------------------------------------------------------------------
(* Claims about what resolving and sweeping leave alone (Spec) *)

\* The fields of a package that describe the case and not its lifecycle.
ContentFields ==
    {"leaseId", "evidenceTxIds", "merkleRoot", "createdBy", "createdAt", "expiresAt",
     "arweaveTxId"}

SameContent(before, after) == \A f \in ContentFields : after[f] = before[f]

\* C34: resolving a case and sweeping change only status, updatedAt and
\* updatedBy of the cases they act on: the lease, the evidence list, the root,
\* the creator, the two dates and the Arweave id of every case stay, resolving
\* leaves every other case as it is, and a sweep leaves every resolved or
\* expired case as it is; neither adds or removes a case.
C34_LifecycleFrame ==
    [][ /\ (ret'.op = "cleanupExpiredDisputes" /\ CleanupExpiredDisputes) =>
             /\ DOMAIN db' = DOMAIN db
             /\ \A id \in DOMAIN db :
                    /\ SameContent(db[id], db'[id])
                    /\ db[id].status \in {"resolved", "expired"} => db'[id] = db[id]
        /\ ret'.op = "updateDisputeStatus" =>
             \A disputeId \in DisputeIds, w \in Wallets :
                 UpdateDisputeStatus(disputeId, "resolved", w) =>
                     /\ DOMAIN db' = DOMAIN db
                     /\ \A id \in DOMAIN db :
                            /\ SameContent(db[id], db'[id])
                            /\ id # disputeId => db'[id] = db[id] ]_vars

\* A sweep has just expired one case next to a case that was resolved before.
C34_Witness ==
    /\ ret.op = "cleanupExpiredDisputes"
    /\ \E id \in DOMAIN db : db[id].status = "expired" /\ db[id].updatedAt = now
    /\ \E id \in DOMAIN db :
           db[id].status = "resolved" /\ db[id].updatedBy # "" /\ db[id].updatedAt < now

----------------------------------------------------------------------------
(* Claims about the evidence list of a case (SpecRepeats) *)

\* No identifier occurs twice in the list.
NoRepeat(ids) == \A i, j \in 1..Len(ids) : ids[i] = ids[j] => i = j

\* C35: the evidence list of every stored case, in the service and in the
\* contract, names no identifier twice: a request whose list repeats an
\* identifier does not store a case with that list.
C35_NoRepeatedEvidence ==
    /\ \A id \in DOMAIN db : NoRepeat(db[id].evidenceTxIds)
    /\ \A id \in DOMAIN disputePackages : NoRepeat(disputePackages[id].evidenceTxIds)

----------------------------------------------------------------------------
(* Claims about the stored root (Spec) *)

\* C36: the merkleRoot stored with a case is the root its registry's builder
\* gives for the evidence list stored with that case - generateMerkleRoot in
\* the service, the leaf loop and _generateMerkleRoot in the contract - after
\* any sequence of builds, status updates, sweeps and clock readings.
C36_RootMatchesEvidence ==
    /\ \A id \in DOMAIN db :
           db[id].merkleRoot = generateMerkleRoot(db[id].evidenceTxIds)
    /\ \A id \in DOMAIN disputePackages :
           disputePackages[id].merkleRoot
               = _bytes32ToString(ChainMerkleRoot(disputePackages[id].evidenceTxIds))

\* Two cases over different evidence lists are stored, one of three
\* identifiers that a sweep has expired and one whose status was updated.
C36_Witness ==
    \E a, b \in DOMAIN db :
        /\ db[a].evidenceTxIds # db[b].evidenceTxIds
        /\ Len(db[a].evidenceTxIds) = 3
        /\ db[a].status = "expired"
        /\ db[b].updatedBy # ""

----------------------------------------------------------------------------
(* Claims about the count a sweep returns (Spec) *)

\* The cases a step takes from pending to expired.
NewlyExpired == {id \in DOMAIN db : db[id].status = "pending" /\ db'[id].status = "expired"}

\* C37: the count a sweep returns is the number of cases that sweep took from
\* pending to expired; a case resolved before the sweep ran is not counted,
\* and the sweep has no await at which another call could run.
C37_SweepCountsChanges ==
    [][(ret'.op = "cleanupExpiredDisputes" /\ CleanupExpiredDisputes)
          => /\ ret'.err = ""
             /\ ret'.count = Cardinality(NewlyExpired)
             /\ \A id \in DOMAIN db : db'[id] # db[id] => id \in NewlyExpired]_vars

\* A sweep has just expired one case and returned 1, next to a resolved case
\* whose expiry has passed as well.
C37_Witness ==
    /\ ret.op = "cleanupExpiredDisputes"
    /\ ret.count = 1
    /\ \E id \in DOMAIN db : db[id].status = "expired" /\ db[id].updatedAt = now
    /\ \E id \in DOMAIN db : db[id].status = "resolved" /\ db[id].expiresAt < now

----------------------------------------------------------------------------
(* Claims about the contract's indices (SpecChain) *)

\* How often the id occurs in the list.
Occurrences(list, id) == Cardinality({i \in 1..Len(list) : list[i] = id})

\* The account whose createDisputePackage generated the id of the dispute.
IsCreator(a, id, dispute) == id = _generateDisputeId(dispute.leaseId, dispute.createdAt, a)

\* leaseDisputes and userDisputes agree with disputePackages: every dispute
\* is once in the list of its lease and once in the list of its creator, and
\* in no other list; every entry of a list names a stored dispute.
IndicesAgree(packages, byLease, byUser) ==
    /\ \A id \in DOMAIN packages :
           /\ \A l \in DOMAIN byLease :
                  Occurrences(byLease[l], id) = IF l = packages[id].leaseId THEN 1 ELSE 0
           /\ \A a \in DOMAIN byUser :
                  Occurrences(byUser[a], id) = IF IsCreator(a, id, packages[id]) THEN 1 ELSE 0
           /\ \E a \in DOMAIN byUser : IsCreator(a, id, packages[id])
    /\ \A l \in DOMAIN byLease : \A i \in 1..Len(byLease[l]) : byLease[l][i] \in DOMAIN packages
    /\ \A a \in DOMAIN byUser : \A i \in 1..Len(byUser[a]) : byUser[a][i] \in DOMAIN packages

\* C38: the two indices, which are empty after the constructor, agree with
\* the dispute records after every step that writes a record or an index,
\* and a createDisputePackage that reverts writes none of them.
C38_IndicesAgree ==
    [][ /\ (txRet'.fn = "createDisputePackage" /\ txRet'.revert # "")
               => UNCHANGED <<disputePackages, leaseDisputes, userDisputes>>
        /\ ~(UNCHANGED <<disputePackages, leaseDisputes, userDisputes>>)
               => IndicesAgree(disputePackages', leaseDisputes', userDisputes') ]_vars

\* The two accounts have each created a dispute over the lease, one of them
\* is resolved, and a further createDisputePackage has just been rejected for
\* its id.
C38_Witness ==
    /\ txRet = TxOutcome("createDisputePackage", "Dispute already exists")
    /\ \A a \in Accounts : Len(userDisputes[a]) >= 1
    /\ Len(leaseDisputes["lease-1"]) >= 3
    /\ \E id \in DOMAIN disputePackages : disputePackages[id].resolved

----------------------------------------------------------------------------
(* Claims about the evidence limits (SpecLimits) *)

\* 1 <= minEvidenceCount < maxEvidenceCount <= 1000
LimitsWellFormed(minCount, maxCount) ==
    1 <= minCount /\ minCount < maxCount /\ maxCount <= 1000

\* C39: the contract's evidence limits satisfy 1 <= minEvidenceCount <
\* maxEvidenceCount <= 1000 before and after every step; an
\* updateEvidenceLimits whose arguments break one of the three conditions
\* reverts, and a reverted call changes neither limit; so some evidence count
\* passes both length requires of createDisputePackage.
C39_LimitsWellFormed ==
    [][ /\ LimitsWellFormed(minEvidenceCount, maxEvidenceCount)
        /\ LimitsWellFormed(minEvidenceCount', maxEvidenceCount')
        /\ \E n \in minEvidenceCount'..maxEvidenceCount' :
               ~(n < minEvidenceCount') /\ ~(n > maxEvidenceCount')
        /\ txRet'.fn = "updateEvidenceLimits" =>
             /\ txRet'.revert # ""
                   => UNCHANGED <<minEvidenceCount, maxEvidenceCount>>
             /\ \A limits \in LimitInputs :
                    (updateEvidenceLimits(Owner, limits[1], limits[2])
                        /\ ~LimitsWellFormed(limits[1], limits[2]))
                      => txRet'.revert # "" ]_vars

\* The owner has set the limits to 1 and 1000, a dispute over two evidence
\* ids was created under them, and a call with minCount = maxCount has just
\* been rejected.
C39_Witness ==
    /\ txRet = TxOutcome("updateEvidenceLimits", "Min count must be less than max count")
    /\ minEvidenceCount = 1
    /\ maxEvidenceCount = 1000
    /\ \E id \in DOMAIN disputePackages : Len(disputePackages[id].evidenceTxIds) = 2

====
